---- MODULE Spec2Model ----
(***************************************************************************)
(* GrantMaster: the LangGraph pipeline of core/graph_orchestrator.py with  *)
(* the node functions of agents/*.py and the section storage of            *)
(* core/data_manager.py.                                                   *)
(*                                                                         *)
(* Texts (Python str) are sequences of fragments: a fragment is a one      *)
(* character string, or a literal piece of a message.  An f-string is the  *)
(* concatenation of its pieces.  Python's None in a text-valued field is   *)
(* the value None below; dict-valued fields are records, NoneDict is       *)
(* Python's None there and EmptyDict is {}.                                *)
(***************************************************************************)
EXTENDS Integers, Sequences, FiniteSets, TLC

VARIABLES
    app,        \* "compiled" or "None": GraphOrchestrator.app after __init__
    run,        \* how the current execution was started ("idle" before any)
    state,      \* the GrantMasterState the engine accumulates
    cur,        \* the node the engine invokes next; "END" when finished
    trace,      \* the nodes invoked so far, in order
    calls,      \* collaborator and gateway calls made so far, in order
    sections,   \* rows of grant_application_sections
    grants,     \* rows of grant_opportunities
    errors,     \* the non-None error_message values node updates set, in order
    decision,   \* last result of should_redraft_or_save ("unset" before)
    profile_rows,   \* rows of organization_profile
    profile_seq,    \* the AUTOINCREMENT counter of organization_profile
    result      \* what the last DataManager call made by a caller returned

vars == <<app, run, state, cur, trace, calls, sections, grants, errors, decision,
          profile_rows, profile_seq, result>>

----------------------------------------------------------------------------
(* Bounds *)

MaxGrants == 2          \* length of the candidate list the extractor returns
MaxIterationInput == 5  \* largest iteration_count handed to the routing function

----------------------------------------------------------------------------
(* Python values *)

None == <<"None">>
NoneDict == [isNone |-> TRUE]
EmptyDict == <<>>

\* bool(x) for a text-valued field
Truthy(x) == x # None /\ x # <<>>

\* a truth test that takes the empty dict for true
DictTruthy_none_only(d) == d # NoneDict

\* bool(d) for a dict-valued field
DictTruthy(d) == d # NoneDict /\ DOMAIN d # {}

\* d.get(k) for a dict whose values are texts
DictGet(d, k) == IF d # NoneDict /\ k \in DOMAIN d THEN d[k] ELSE None

UpperLetters == <<"A","B","C","D","E","F","G","H","I","J","K","L","M",
                  "N","O","P","Q","R","S","T","U","V","W","X","Y","Z">>
LowerLetters == <<"a","b","c","d","e","f","g","h","i","j","k","l","m",
                  "n","o","p","q","r","s","t","u","v","w","x","y","z">>

Whitespace == {" ", "\t", "\n", "\r"}

\* str.lower() on one character
LowerChar(c) ==
    IF \E i \in 1..26 : UpperLetters[i] = c
    THEN LowerLetters[CHOOSE i \in 1..26 : UpperLetters[i] = c]
    ELSE c

\* str.upper() on one character
UpperChar(c) ==
    IF \E i \in 1..26 : LowerLetters[i] = c
    THEN UpperLetters[CHOOSE i \in 1..26 : LowerLetters[i] = c]
    ELSE c

\* str.lower()
Lower(s) == [i \in 1..Len(s) |-> LowerChar(s[i])]

\* str.upper()
Upper(s) == [i \in 1..Len(s) |-> UpperChar(s[i])]

\* kw in s
Contains(s, kw) ==
    \E i \in 0..(Len(s) - Len(kw)) : SubSeq(s, i + 1, i + Len(kw)) = kw

\* s.startswith(p)
StartsWith(s, p) == Len(s) >= Len(p) /\ SubSeq(s, 1, Len(p)) = p

RECURSIVE LStrip(_)
LStrip(s) == IF s # <<>> /\ Head(s) \in Whitespace THEN LStrip(Tail(s)) ELSE s

RECURSIVE RStrip(_)
RStrip(s) ==
    IF s # <<>> /\ s[Len(s)] \in Whitespace
    THEN RStrip(SubSeq(s, 1, Len(s) - 1))
    ELSE s

\* str.strip()
Strip(s) == RStrip(LStrip(s))

\* str(n) for an integer
IntText(n) == <<ToString(n)>>

\* the shallow merge of a node's update into the accumulated state
Merge(st, upd) ==
    [k \in DOMAIN st |-> IF k \in DOMAIN upd THEN upd[k] ELSE st[k]]

----------------------------------------------------------------------------
(* Inputs: what callers pass and what the collaborators answer *)

Profile == [name |-> <<"O","r","g">>]
ProfileArgs == {NoneDict, EmptyDict, Profile}

GrantId == <<"7">>
GrantDetailsArgs ==
    {NoneDict, EmptyDict, [grant_title |-> <<"G">>], [grant_title |-> <<"G">>, id |-> GrantId]}

SectionName == <<"Intro">>
SectionArgs == {None, <<>>, SectionName}

UrlArgs == {None, <<>>, <<"grants.gov">>, <<"https://", "grants.gov">>}

CredentialArgs ==
    {NoneDict, EmptyDict, [username |-> <<"u">>],
     [username |-> <<"u">>, password |-> <<>>],
     [username |-> <<"u">>, password |-> <<"p">>]}

\* what a collaborator call does: it returns a value or raises
Return(v) == [kind |-> "return", val |-> v]
Raise == [kind |-> "raise", val |-> <<"Agent exploded">>]

\* the "// Error ..." string the agents return when the API call failed
AgentErrorText == <<"// Error", " generating">>

DraftTexts == {<<"d","A">>, <<"d","B">>}

\* WriterAgent.draft_section: a draft, an empty draft, the error string,
\* a value that is not a str, or an exception
DraftOutcomes ==
    {Return(t) : t \in DraftTexts \cup {<<>>, AgentErrorText, None}} \cup {Raise}

approval_keywords ==
    << <<"l","o","o","k","s"," ","g","o","o","d">>,
       <<"a","p","p","r","o","v","e","d">>,
       <<"n","o"," ","c","h","a","n","g","e","s"," ","n","e","e","d","e","d">>,
       <<"r","e","a","d","y"," ","t","o"," ","s","a","v","e">> >>

\* first letter in upper case, the rest unchanged
Capitalised(s) == IF s = <<>> THEN s ELSE <<UpperChar(s[1])>> \o Tail(s)

\* every approval phrase in lower, upper and capitalised letters
ApprovalCores ==
    UNION {{approval_keywords[i], Upper(approval_keywords[i]),
            Capitalised(approval_keywords[i])} : i \in 1..Len(approval_keywords)}

\* feedback with no approval phrase: empty, whitespace only, critical, and
\* near misses of the phrases
OtherCores ==
    {<<>>, <<" "," "," ">>, <<"\t","\n">>,
     <<"N","e","e","d","s"," ","w","o","r","k">>,
     <<"l","o","o","k"," ","g","o","o","d">>,
     <<"a","p","p","r","o","v","e">>,
     <<"r","e","a","d","y"," "," ","t","o"," ","s","a","v","e">>}

FeedbackPrefixes == {<<>>, <<" ">>, <<"H","m",":"," ">>}
FeedbackSuffixes == {<<>>, <<"!">>, <<"\n">>}

\* the feedback strings the reviewer may produce
FeedbackTexts ==
    {p \o c \o s : p \in FeedbackPrefixes, c \in ApprovalCores \cup OtherCores,
                   s \in FeedbackSuffixes}

\* the feedback strings the reviewer produces in the executions of the loop:
\* approving, critical, empty and whitespace only
LoopFeedbackTexts ==
    {<<"H","m",":"," ">> \o Upper(approval_keywords[2]) \o <<"!">>,
     approval_keywords[1],
     <<"N","e","e","d","s"," ","w","o","r","k">>,
     <<"a","p","p","r","o","v","e">>,
     <<>>,
     <<" ","\n">>}

\* EditorAgent.review_draft: feedback, the error string, a value that is not
\* a str, or an exception
ReviewOutcomes ==
    {Return(t) : t \in LoopFeedbackTexts \cup {AgentErrorText, None}} \cup {Raise}

\* DataManager.save_section_draft as the node sees it: the new row's id, None
\* after a database error, or an exception
SaveOutcomes == {"saved", "returns_none", "raises"}

----------------------------------------------------------------------------
(* The state record *)

\* the call GrantMasterState(...) of run_research_workflow
ResearchInitialState(url, credentials, profile) ==
    [organization_profile |-> profile,
     research_website_url |-> url,
     research_login_credentials |-> credentials,
     authenticated_driver_session |-> None,
     extracted_grant_opportunities |-> <<>>,
     current_grant_opportunity_id |-> None,
     current_grant_details |-> NoneDict,
     current_section_name |-> None,
     current_draft_content |-> None,
     editor_feedback |-> None,
     iteration_count |-> 0,
     error_message |-> None,
     log_messages |-> << <<"Research workflow started.">> >>,
     next_node_to_call |-> None]

\* the call GrantMasterState(...) of run_writing_workflow
WritingInitialState(details, profile, section) ==
    [organization_profile |-> profile,
     research_website_url |-> None,
     research_login_credentials |-> NoneDict,
     authenticated_driver_session |-> None,
     extracted_grant_opportunities |-> <<>>,
     current_grant_opportunity_id |->
         IF DictTruthy(details) THEN DictGet(details, "id") ELSE None,
     current_grant_details |-> details,
     current_section_name |-> section,
     current_draft_content |-> None,
     editor_feedback |-> None,
     iteration_count |-> 0,
     error_message |-> None,
     log_messages |-> << <<"Writing workflow started for section: ">> \o section \o <<".">> >>,
     next_node_to_call |-> <<"draft_section">>]

\* the state before any workflow is run
NoState == ResearchInitialState(None, NoneDict, NoneDict)

----------------------------------------------------------------------------
(* Node functions of the draft/review loop.  Each returns the node's update; *)
(* Raised stands for an exception that leaves the node.                      *)

Raised == [raised |-> TRUE]

\* state.get(k): None when the key is absent
StateGet(st, k) == IF k \in DOMAIN st THEN st[k] ELSE None

\* the exception a collaborator call ends with, if any: the one it raised, or
\* the AttributeError of calling startswith on a value that is not a str
ExceptionText(o) ==
    IF o.kind = "raise" THEN o.val
    ELSE <<"'NoneType' object has no attribute 'startswith'">>

Fails(o) == o.kind = "raise" \/ o.val = None

\* the prerequisite check of node_draft_section
DraftPrerequisiteMissing(st) ==
    \/ ~DictTruthy(st.current_grant_details)
    \/ ~DictTruthy(st.organization_profile)
    \/ ~Truthy(st.current_section_name)

\* the guidance built from specific_instructions alone
combined_instructions_ignores_feedback(st) ==
    LET specific == StateGet(st, "specific_instructions")
    IN  IF Truthy(specific) THEN specific ELSE <<>>

\* the guidance node_draft_section passes to the writer
combined_instructions(st) ==
    LET specific == StateGet(st, "specific_instructions")
        feedback == st.editor_feedback
        first == IF Truthy(specific) THEN specific ELSE <<>>
    IN  IF Truthy(feedback)
        THEN (IF first # <<>>
              THEN first \o <<"\n\n--- Previous Editor Feedback ---\n">>
              ELSE first) \o feedback
        ELSE first

\* node_draft_section counting an attempt only when the writer succeeds
node_draft_section_counts_successes(st, o) ==
    LET log == st.log_messages
        name == st.current_section_name
        n == st.iteration_count + 1
    IN  IF DraftPrerequisiteMissing(st)
        THEN LET msg == <<"Cannot draft section: Missing current_grant_details, organization_profile, or current_section_name in state.">>
             IN  [error_message |-> msg,
                  log_messages |-> Append(log, msg),
                  current_draft_content |-> <<>>,
                  iteration_count |-> st.iteration_count]
        ELSE IF Fails(o) \/ StartsWith(o.val, <<"// Error">>)
        THEN LET msg == <<"WriterAgent failed to draft section '">> \o name \o <<"'">>
             IN  [current_draft_content |-> <<>>,
                  iteration_count |-> st.iteration_count,
                  log_messages |-> Append(log, msg),
                  error_message |-> msg]
        ELSE [current_draft_content |-> o.val,
              iteration_count |-> n,
              log_messages |-> Append(log, <<"Drafted section (Iteration ">> \o IntText(n)
                                           \o <<"): ">> \o name \o <<".">>),
              error_message |-> None]

\* node_draft_section without the except clause around the writer call
node_draft_section_lets_exception_escape(st, o) ==
    LET log == st.log_messages
        name == st.current_section_name
        n == st.iteration_count + 1
    IN  IF DraftPrerequisiteMissing(st)
        THEN LET msg == <<"Cannot draft section: Missing current_grant_details, organization_profile, or current_section_name in state.">>
             IN  [error_message |-> msg,
                  log_messages |-> Append(log, msg),
                  current_draft_content |-> <<>>,
                  iteration_count |-> st.iteration_count]
        ELSE IF Fails(o)
        THEN Raised
        ELSE IF StartsWith(o.val, <<"// Error">>)
        THEN LET msg == <<"WriterAgent failed to draft section '">> \o name
                         \o <<"': ">> \o o.val
             IN  [current_draft_content |-> <<>>,
                  iteration_count |-> n,
                  log_messages |-> Append(log, msg),
                  error_message |-> msg]
        ELSE [current_draft_content |-> o.val,
              iteration_count |-> n,
              log_messages |-> Append(log, <<"Drafted section (Iteration ">> \o IntText(n)
                                           \o <<"): ">> \o name \o <<".">>),
              error_message |-> None]

\* node_draft_section incrementing iteration_count on the prerequisite exit too
node_draft_section_counts_refused_attempts(st, o) ==
    LET log == st.log_messages
        name == st.current_section_name
        n == st.iteration_count + 1
    IN  IF DraftPrerequisiteMissing(st)
        THEN LET msg == <<"Cannot draft section: Missing current_grant_details, organization_profile, or current_section_name in state.">>
             IN  [error_message |-> msg,
                  log_messages |-> Append(log, msg),
                  current_draft_content |-> <<>>,
                  iteration_count |-> n]
        ELSE IF Fails(o)
        THEN LET msg == <<"Unexpected error in node_draft_section for '">> \o name
                         \o <<"': ">> \o ExceptionText(o)
             IN  [current_draft_content |-> <<>>,
                  iteration_count |-> n,
                  log_messages |-> Append(log, msg),
                  error_message |-> msg]
        ELSE IF StartsWith(o.val, <<"// Error">>)
        THEN LET msg == <<"WriterAgent failed to draft section '">> \o name
                         \o <<"': ">> \o o.val
             IN  [current_draft_content |-> <<>>,
                  iteration_count |-> n,
                  log_messages |-> Append(log, msg),
                  error_message |-> msg]
        ELSE [current_draft_content |-> o.val,
              iteration_count |-> n,
              log_messages |-> Append(log, <<"Drafted section (Iteration ">> \o IntText(n)
                                           \o <<"): ">> \o name \o <<".">>),
              error_message |-> None]

\* node_draft_section returning the writer's '// Error' text as the draft
node_draft_section_keeps_failed_text(st, o) ==
    LET log == st.log_messages
        name == st.current_section_name
        n == st.iteration_count + 1
    IN  IF DraftPrerequisiteMissing(st)
        THEN LET msg == <<"Cannot draft section: Missing current_grant_details, organization_profile, or current_section_name in state.">>
             IN  [error_message |-> msg,
                  log_messages |-> Append(log, msg),
                  current_draft_content |-> <<>>,
                  iteration_count |-> st.iteration_count]
        ELSE IF Fails(o)
        THEN LET msg == <<"Unexpected error in node_draft_section for '">> \o name
                         \o <<"': ">> \o ExceptionText(o)
             IN  [current_draft_content |-> <<>>,
                  iteration_count |-> n,
                  log_messages |-> Append(log, msg),
                  error_message |-> msg]
        ELSE IF StartsWith(o.val, <<"// Error">>)
        THEN LET msg == <<"WriterAgent failed to draft section '">> \o name
                         \o <<"': ">> \o o.val
             IN  [current_draft_content |-> o.val,
                  iteration_count |-> n,
                  log_messages |-> Append(log, msg),
                  error_message |-> msg]
        ELSE [current_draft_content |-> o.val,
              iteration_count |-> n,
              log_messages |-> Append(log, <<"Drafted section (Iteration ">> \o IntText(n)
                                           \o <<"): ">> \o name \o <<".">>),
              error_message |-> None]

node_draft_section(st, o) ==
    LET log == st.log_messages
        name == st.current_section_name
        n == st.iteration_count + 1
    IN  IF DraftPrerequisiteMissing(st)
        THEN LET msg == <<"Cannot draft section: Missing current_grant_details, organization_profile, or current_section_name in state.">>
             IN  [error_message |-> msg,
                  log_messages |-> Append(log, msg),
                  current_draft_content |-> <<>>,
                  iteration_count |-> st.iteration_count]
        ELSE IF Fails(o)
        THEN LET msg == <<"Unexpected error in node_draft_section for '">> \o name
                         \o <<"': ">> \o ExceptionText(o)
             IN  [current_draft_content |-> <<>>,
                  iteration_count |-> n,
                  log_messages |-> Append(log, msg),
                  error_message |-> msg]
        ELSE IF StartsWith(o.val, <<"// Error">>)
        THEN LET msg == <<"WriterAgent failed to draft section '">> \o name
                         \o <<"': ">> \o o.val
             IN  [current_draft_content |-> <<>>,
                  iteration_count |-> n,
                  log_messages |-> Append(log, msg),
                  error_message |-> msg]
        ELSE [current_draft_content |-> o.val,
              iteration_count |-> n,
              log_messages |-> Append(log, <<"Drafted section (Iteration ">> \o IntText(n)
                                           \o <<"): ">> \o name \o <<".">>),
              error_message |-> None]

\* the writer is called exactly when the prerequisites hold
DraftCalls(st, o) ==
    IF DraftPrerequisiteMissing(st) THEN <<>>
    ELSE << [fn |-> "draft_section", arg |-> combined_instructions(st), res |-> o.val] >>

\* which of its two prerequisites node_review_draft misses, if any
ReviewPrerequisiteMissing(st) ==
    ~Truthy(st.current_section_name) \/ ~Truthy(st.current_draft_content)

\* node_review_draft without the check of current_draft_content
node_review_draft_skips_draft_check(st, o) ==
    LET log == st.log_messages
        name == st.current_section_name
    IN  IF ~Truthy(name)
        THEN LET msg == <<"Cannot review draft: Missing current_section_name in state.">>
             IN  [error_message |-> msg,
                  log_messages |-> Append(log, msg),
                  editor_feedback |-> <<>>]
        ELSE IF st.current_grant_details = NoneDict
        THEN Raised
        ELSE IF Fails(o)
        THEN LET msg == <<"Unexpected error in node_review_draft for '">> \o name
                         \o <<"': ">> \o ExceptionText(o)
             IN  [editor_feedback |-> <<>>,
                  log_messages |-> Append(log, msg),
                  error_message |-> msg]
        ELSE IF StartsWith(o.val, <<"// Error">>)
        THEN LET msg == <<"EditorAgent failed to review section '">> \o name
                         \o <<"': ">> \o o.val
             IN  [editor_feedback |-> <<>>,
                  log_messages |-> Append(log, msg),
                  error_message |-> msg]
        ELSE [editor_feedback |-> o.val,
              log_messages |-> Append(log, <<"Feedback received for section: ">> \o name
                                           \o <<" from editor.">>),
              error_message |-> None]

node_review_draft(st, o) ==
    LET log == st.log_messages
        name == st.current_section_name
    IN  IF ~Truthy(name)
        THEN LET msg == <<"Cannot review draft: Missing current_section_name in state.">>
             IN  [error_message |-> msg,
                  log_messages |-> Append(log, msg),
                  editor_feedback |-> <<>>]
        ELSE IF ~Truthy(st.current_draft_content)
        THEN LET msg == <<"Cannot review draft for section '">> \o name
                         \o <<"': Missing current_draft_content in state or content is empty.">>
             IN  [error_message |-> msg,
                  log_messages |-> Append(log, msg),
                  editor_feedback |-> <<>>]
        ELSE IF st.current_grant_details = NoneDict
        THEN Raised  \* None.get('guidelines_summary', ...) outside the try block
        ELSE IF Fails(o)
        THEN LET msg == <<"Unexpected error in node_review_draft for '">> \o name
                         \o <<"': ">> \o ExceptionText(o)
             IN  [editor_feedback |-> <<>>,
                  log_messages |-> Append(log, msg),
                  error_message |-> msg]
        ELSE IF StartsWith(o.val, <<"// Error">>)
        THEN LET msg == <<"EditorAgent failed to review section '">> \o name
                         \o <<"': ">> \o o.val
             IN  [editor_feedback |-> <<>>,
                  log_messages |-> Append(log, msg),
                  error_message |-> msg]
        ELSE [editor_feedback |-> o.val,
              log_messages |-> Append(log, <<"Feedback received for section: ">> \o name
                                           \o <<" from editor.">>),
              error_message |-> None]

\* the reviewer is called exactly when the prerequisites hold
ReviewCalls(st, o) ==
    IF ReviewPrerequisiteMissing(st) \/ st.current_grant_details = NoneDict THEN <<>>
    ELSE << [fn |-> "review_draft", arg |-> st.current_draft_content, res |-> o.val] >>

\* the prerequisite check of save_section_node without the test of the draft
SavePrerequisiteMissing_ignores_draft(st) ==
    \/ ~Truthy(st.current_grant_opportunity_id)
    \/ ~Truthy(st.current_section_name)

\* the prerequisite check of save_section_node
SavePrerequisiteMissing(st) ==
    \/ ~Truthy(st.current_grant_opportunity_id)
    \/ ~Truthy(st.current_section_name)
    \/ ~Truthy(st.current_draft_content)

\* the row without the reviewer's feedback
SectionRow_without_feedback(st) ==
    [grant_opportunity_id |-> st.current_grant_opportunity_id,
     section_name |-> st.current_section_name,
     draft_content |-> st.current_draft_content,
     version |-> st.iteration_count,
     feedback |-> <<>>]

\* the row save_section_node hands to DataManager.save_section_draft
SectionRow(st) ==
    [grant_opportunity_id |-> st.current_grant_opportunity_id,
     section_name |-> st.current_section_name,
     draft_content |-> st.current_draft_content,
     version |-> st.iteration_count,
     feedback |-> st.editor_feedback]

\* save_section_node not reporting that save_section_draft returned None
save_section_node_ignores_none(st, o, db_id) ==
    LET log == st.log_messages
        name == st.current_section_name
        id == st.current_grant_opportunity_id
        version == IntText(st.iteration_count)
    IN  IF SavePrerequisiteMissing(st)
        THEN LET msg ==
                   IF ~Truthy(id)
                   THEN <<"Save section failed: Missing current_grant_opportunity_id in state.">>
                   ELSE IF ~Truthy(name)
                   THEN <<"Save section failed: Missing current_section_name in state.">>
                   ELSE <<"Save section failed: Missing or empty current_draft_content in state.">>
             IN  [log_messages |-> Append(log, msg), error_message |-> msg]
        ELSE IF o = "saved"
        THEN [log_messages |-> Append(log, <<"Section '">> \o name \o <<"' (Version ">>
                                  \o version \o <<") saved to database with ID: ">>
                                  \o IntText(db_id) \o <<" for grant ID ">> \o id \o <<".">>),
              error_message |-> None]
        ELSE IF o = "returns_none"
        THEN LET msg == <<"Failed to save section '">> \o name \o <<"' (Version ">>
                         \o version \o <<") to database for grant ID ">> \o id
                         \o <<". DataManager returned None.">>
             IN  [log_messages |-> Append(log, msg), error_message |-> None]
        ELSE LET msg == <<"Unexpected error in save_section_node for section '">> \o name
                         \o <<"': ">> \o Raise.val
             IN  [log_messages |-> Append(log, msg), error_message |-> msg]

\* save_section_node, given what save_section_draft did and the id it assigned
save_section_node(st, o, db_id) ==
    LET log == st.log_messages
        name == st.current_section_name
        id == st.current_grant_opportunity_id
        version == IntText(st.iteration_count)
    IN  IF SavePrerequisiteMissing(st)
        THEN LET msg ==
                   IF ~Truthy(id)
                   THEN <<"Save section failed: Missing current_grant_opportunity_id in state.">>
                   ELSE IF ~Truthy(name)
                   THEN <<"Save section failed: Missing current_section_name in state.">>
                   ELSE <<"Save section failed: Missing or empty current_draft_content in state.">>
             IN  [log_messages |-> Append(log, msg), error_message |-> msg]
        ELSE IF o = "saved"
        THEN [log_messages |-> Append(log, <<"Section '">> \o name \o <<"' (Version ">>
                                  \o version \o <<") saved to database with ID: ">>
                                  \o IntText(db_id) \o <<" for grant ID ">> \o id \o <<".">>),
              error_message |-> None]
        ELSE IF o = "returns_none"
        THEN LET msg == <<"Failed to save section '">> \o name \o <<"' (Version ">>
                         \o version \o <<") to database for grant ID ">> \o id
                         \o <<". DataManager returned None.">>
             IN  [log_messages |-> Append(log, msg), error_message |-> msg]
        ELSE LET msg == <<"Unexpected error in save_section_node for section '">> \o name
                         \o <<"': ">> \o Raise.val
             IN  [log_messages |-> Append(log, msg), error_message |-> msg]

\* save_section_draft written as INSERT OR REPLACE on the key
\* (grant_opportunity_id, section_name, version)
save_section_draft_upsert(rows, row) ==
    LET same == {i \in DOMAIN rows :
                    /\ rows[i].grant_opportunity_id = row.grant_opportunity_id
                    /\ rows[i].section_name = row.section_name
                    /\ rows[i].version = row.version}
    IN  IF same = {} THEN Append(rows, [id |-> Len(rows) + 1] @@ row)
        ELSE [i \in DOMAIN rows |-> IF i \in same THEN [id |-> rows[i].id] @@ row
                                    ELSE rows[i]]

\* DataManager.save_section_draft: INSERT one row, AUTOINCREMENT id
save_section_draft(rows, row) ==
    Append(rows, [id |-> Len(rows) + 1] @@ row)

\* handle_error_node returning 'error_message': None with the log
handle_error_node_clears_error(st) ==
    [log_messages |-> Append(st.log_messages,
         <<"ERROR ENCOUNTERED IN GRAPH: ">> \o st.error_message),
     error_message |-> None]

\* handle_error_node returning a log that holds only its own entry
handle_error_node_only_new_entry(st) ==
    [log_messages |-> << <<"ERROR ENCOUNTERED IN GRAPH: ">> \o st.error_message >>]

handle_error_node(st) ==
    LET error_message_from_state ==
            IF "error_message" \in DOMAIN st THEN st.error_message
            ELSE <<"No specific error message provided in state.">>
    IN  [log_messages |-> Append(st.log_messages,
             <<"ERROR ENCOUNTERED IN GRAPH: ">> \o error_message_from_state)]

----------------------------------------------------------------------------
(* Routing *)

max_iterations == 3

\* should_redraft_or_save with the cap tested by > instead of >=
should_redraft_or_save_late_cap(st) ==
    IF st.editor_feedback = None
    THEN "raise AttributeError"
    ELSE
    LET editor_feedback == Lower(st.editor_feedback)
        approved == \E i \in 1..Len(approval_keywords) :
                        Contains(editor_feedback, approval_keywords[i])
        requires_redraft == IF Strip(editor_feedback) = <<>> THEN TRUE ELSE ~approved
    IN  IF Truthy(st.error_message) THEN "handle_error"
        ELSE IF st.iteration_count > max_iterations THEN "save_section"
        ELSE IF requires_redraft THEN "draft_section_again"
        ELSE "save_section"

\* should_redraft_or_save with the cap tested before the error
should_redraft_or_save_cap_first(st) ==
    IF st.editor_feedback = None
    THEN "raise AttributeError"
    ELSE
    LET editor_feedback == Lower(st.editor_feedback)
        approved == \E i \in 1..Len(approval_keywords) :
                        Contains(editor_feedback, approval_keywords[i])
        requires_redraft == IF Strip(editor_feedback) = <<>> THEN TRUE ELSE ~approved
    IN  IF st.iteration_count >= max_iterations THEN "save_section"
        ELSE IF Truthy(st.error_message) THEN "handle_error"
        ELSE IF requires_redraft THEN "draft_section_again"
        ELSE "save_section"

\* should_redraft_or_save without the .lower() on the feedback
should_redraft_or_save_case_sensitive(st) ==
    IF st.editor_feedback = None
    THEN "raise AttributeError"
    ELSE
    LET editor_feedback == st.editor_feedback
        approved == \E i \in 1..Len(approval_keywords) :
                        Contains(editor_feedback, approval_keywords[i])
        requires_redraft == IF Strip(editor_feedback) = <<>> THEN TRUE ELSE ~approved
    IN  IF Truthy(st.error_message) THEN "handle_error"
        ELSE IF st.iteration_count >= max_iterations THEN "save_section"
        ELSE IF requires_redraft THEN "draft_section_again"
        ELSE "save_section"

\* should_redraft_or_save with the operands of "in" exchanged
should_redraft_or_save_reversed_in(st) ==
    IF st.editor_feedback = None
    THEN "raise AttributeError"
    ELSE
    LET editor_feedback == Lower(st.editor_feedback)
        approved == \E i \in 1..Len(approval_keywords) :
                        Contains(approval_keywords[i], editor_feedback)
        requires_redraft == IF Strip(editor_feedback) = <<>> THEN TRUE ELSE ~approved
    IN  IF Truthy(st.error_message) THEN "handle_error"
        ELSE IF st.iteration_count >= max_iterations THEN "save_section"
        ELSE IF requires_redraft THEN "draft_section_again"
        ELSE "save_section"

should_redraft_or_save(st) ==
    IF st.editor_feedback = None
    THEN "raise AttributeError"  \* None.lower(), evaluated before any check
    ELSE
    LET error_message == st.error_message
        editor_feedback == Lower(st.editor_feedback)
        iteration_count == st.iteration_count
        approved == \E i \in 1..Len(approval_keywords) :
                        Contains(editor_feedback, approval_keywords[i])
        requires_redraft == IF Strip(editor_feedback) = <<>> THEN TRUE ELSE ~approved
    IN  IF Truthy(error_message) THEN "handle_error"
        ELSE IF iteration_count >= max_iterations THEN "save_section"
        ELSE IF requires_redraft THEN "draft_section_again"
        ELSE "save_section"

\* the conditional edges after edit_section with 'handle_error' mapped to
\* save_section
EditSectionTargets_saves_on_error(d) ==
    CASE d = "draft_section_again" -> "draft_section"
      [] d = "save_section" -> "save_section"
      [] d = "handle_error" -> "save_section"
      [] OTHER -> "RAISED"

\* the mapping of the conditional edges after edit_section
EditSectionTargets(d) ==
    CASE d = "draft_section_again" -> "draft_section"
      [] d = "save_section" -> "save_section"
      [] d = "handle_error" -> "handle_error"
      [] OTHER -> "RAISED"

\* the edge after login leading to research whatever login returned
after_login_always_research(st) == "research"

\* the conditional edge after login
after_login(st) ==
    IF Truthy(st.authenticated_driver_session) THEN "research" ELSE "handle_error"

\* the conditional edge after research
after_research(st) ==
    IF ~Truthy(st.error_message) THEN "analyze_opportunities" ELSE "handle_error"

\* the conditional edge after analyze_opportunities
after_analyze_opportunities(st) ==
    IF ~Truthy(st.error_message) THEN "END" ELSE "handle_error"

\* set_entry_point('login')
EntryPoint == "login"

----------------------------------------------------------------------------
(* Node functions of the research pipeline *)

Driver == <<"driver">>

\* perform_website_login: (driver, logs), (None, logs), or an exception
LoginOutcomes == {Return(Driver), Return(None), Raise}

internal_login_logs(o) ==
    IF o.kind = "raise" THEN <<>> ELSE << <<"perform_website_login: attempt finished.">> >>

\* node_perform_login reporting no error when perform_website_login returns
\* no driver
node_perform_login_silent_failure(st, o) ==
    LET raw_url == st.research_website_url
        credentials == st.research_login_credentials
        log == st.log_messages
        has_scheme == StartsWith(raw_url, <<"http://">>) \/ StartsWith(raw_url, <<"https://">>)
        url == IF has_scheme THEN raw_url ELSE <<"https://">> \o raw_url
        log2 == Append(log,
                   IF has_scheme
                   THEN <<"Attempting login with provided URL: ">> \o url
                   ELSE <<"URL scheme missing, prepended 'https://'. Original: '">> \o raw_url
                        \o <<"', Used: '">> \o url \o <<"'">>)
    IN  IF ~Truthy(raw_url)
        THEN LET msg == <<"Login failed: research_website_url not found in state.">>
             IN  [error_message |-> msg,
                  authenticated_driver_session |-> None,
                  log_messages |-> Append(log, msg)]
        ELSE IF ~DictTruthy(credentials)
        THEN [error_message |-> <<"Login failed: research_login_credentials not found in state.">>,
              authenticated_driver_session |-> None,
              log_messages |-> log]
        ELSE IF ~Truthy(DictGet(credentials, "username")) \/ ~Truthy(DictGet(credentials, "password"))
        THEN LET msg == <<"Login failed: Username or password not found in research_login_credentials.">>
             IN  [error_message |-> msg,
                  authenticated_driver_session |-> None,
                  log_messages |-> Append(log2, msg)]
        ELSE IF o.kind = "raise"
        THEN LET msg == <<"An unexpected error occurred in node_perform_login while calling or processing result from perform_website_login for ">>
                         \o url \o <<": Exception - ">> \o o.val
             IN  [error_message |-> msg,
                  authenticated_driver_session |-> None,
                  log_messages |-> Append(log2 \o internal_login_logs(o), msg)]
        ELSE IF Truthy(o.val)
        THEN [authenticated_driver_session |-> o.val,
              log_messages |-> Append(log2 \o internal_login_logs(o),
                                      <<"Login successful to ">> \o url \o <<".">>),
              error_message |-> None]
        ELSE [error_message |-> None,
              authenticated_driver_session |-> None,
              log_messages |-> Append(log2 \o internal_login_logs(o),
                                      <<"Login attempt to ">> \o url
                                      \o <<" failed internally (driver not returned). See appended logs for details from perform_website_login.">>)]

node_perform_login(st, o) ==
    LET raw_url == st.research_website_url
        credentials == st.research_login_credentials
        log == st.log_messages
        has_scheme == StartsWith(raw_url, <<"http://">>) \/ StartsWith(raw_url, <<"https://">>)
        url == IF has_scheme THEN raw_url ELSE <<"https://">> \o raw_url
        log2 == Append(log,
                   IF has_scheme
                   THEN <<"Attempting login with provided URL: ">> \o url
                   ELSE <<"URL scheme missing, prepended 'https://'. Original: '">> \o raw_url
                        \o <<"', Used: '">> \o url \o <<"'">>)
    IN  IF ~Truthy(raw_url)
        THEN LET msg == <<"Login failed: research_website_url not found in state.">>
             IN  [error_message |-> msg,
                  authenticated_driver_session |-> None,
                  log_messages |-> Append(log, msg)]
        ELSE IF ~DictTruthy(credentials)
        THEN [error_message |-> <<"Login failed: research_login_credentials not found in state.">>,
              authenticated_driver_session |-> None,
              log_messages |-> log]
        ELSE IF ~Truthy(DictGet(credentials, "username")) \/ ~Truthy(DictGet(credentials, "password"))
        THEN LET msg == <<"Login failed: Username or password not found in research_login_credentials.">>
             IN  [error_message |-> msg,
                  authenticated_driver_session |-> None,
                  log_messages |-> Append(log2, msg)]
        ELSE IF o.kind = "raise"
        THEN LET msg == <<"An unexpected error occurred in node_perform_login while calling or processing result from perform_website_login for ">>
                         \o url \o <<": Exception - ">> \o o.val
             IN  [error_message |-> msg,
                  authenticated_driver_session |-> None,
                  log_messages |-> Append(log2 \o internal_login_logs(o), msg)]
        ELSE IF Truthy(o.val)
        THEN [authenticated_driver_session |-> o.val,
              log_messages |-> Append(log2 \o internal_login_logs(o),
                                      <<"Login successful to ">> \o url \o <<".">>),
              error_message |-> None]
        ELSE [error_message |-> <<"Login failed for ">> \o url
                                \o <<". Driver not returned by perform_website_login. Check appended logs.">>,
              authenticated_driver_session |-> None,
              log_messages |-> Append(log2 \o internal_login_logs(o),
                                      <<"Login attempt to ">> \o url
                                      \o <<" failed internally (driver not returned). See appended logs for details from perform_website_login.">>)]

\* perform_website_login is called once every prerequisite holds
LoginCalls(st) ==
    IF /\ Truthy(st.research_website_url)
       /\ DictTruthy(st.research_login_credentials)
       /\ Truthy(DictGet(st.research_login_credentials, "username"))
       /\ Truthy(DictGet(st.research_login_credentials, "password"))
    THEN << [fn |-> "perform_website_login", arg |-> st.research_website_url] >>
    ELSE <<>>

\* the candidate records the extractor may return
GrantInfos == {[title |-> <<"G1">>], [title |-> <<"G2">>]}

RECURSIVE SeqsUpTo(_, _)
SeqsUpTo(S, n) ==
    IF n = 0 THEN {<<>>}
    ELSE LET shorter == SeqsUpTo(S, n - 1)
         IN  shorter \cup {Append(q, x) : q \in {r \in shorter : Len(r) = n - 1}, x \in S}

\* WebSleuthAgent.research_and_extract: (results_list, ws_logs) or an
\* exception; page tells whether reading the driver's page info succeeded
ResearchOutcomes ==
    {[kind |-> "return", val |-> l, page |-> b] :
        l \in SeqsUpTo(GrantInfos, MaxGrants), b \in BOOLEAN}
    \cup {[kind |-> "raise", val |-> Raise.val, page |-> b] : b \in BOOLEAN}

node_research_and_extract(st, o) ==
    LET authenticated_driver == st.authenticated_driver_session
        log == st.log_messages
        log1 == IF Truthy(authenticated_driver)
                THEN IF o.page
                     THEN log \o << <<"Research node: Authenticated driver. Current URL: ...">>,
                                    <<"Research node: Page source snippet (first 500 chars): ...">> >>
                     ELSE Append(log, <<"Research node: ERROR: Error getting initial page info in research node: Exception - ">> \o Raise.val)
                ELSE Append(log, <<"Research node: Authenticated driver not found. Skipping initial page logging.">>)
        log2 == Append(log1, <<"Research node: Calling WebSleuthAgent.research_and_extract with task: 'Find relevant grant opportunities'">>)
    IN  IF ~Truthy(authenticated_driver)
        THEN [error_message |-> <<"Cannot research, not logged in.">>,
              extracted_grant_opportunities |-> <<>>,
              log_messages |-> Append(log1, <<"Research node: ERROR - Cannot research, not logged in.">>)]
        ELSE IF o.kind = "raise"
        THEN LET msg == <<"An unexpected error occurred in node_research_and_extract: Exception - ">> \o o.val
             IN  [extracted_grant_opportunities |-> <<>>,
                  log_messages |-> Append(log2, <<"Research node: ERROR - ">> \o msg),
                  error_message |-> msg]
        ELSE [extracted_grant_opportunities |-> o.val,
              log_messages |-> Append(Append(log2, <<"WebSleuthAgent: finished.">>),
                                      <<"Research node: WebSleuthAgent finished. Found ">>
                                      \o IntText(Len(o.val)) \o <<" potential opportunities.">>),
              error_message |-> None]

ResearchCalls(st) ==
    IF Truthy(st.authenticated_driver_session)
    THEN << [fn |-> "research_and_extract", arg |-> st.authenticated_driver_session] >>
    ELSE <<>>

----------------------------------------------------------------------------
(* The analysis node *)

\* what happens to one candidate: the analyst returns an error dict or
\* raises; save_grant_opportunity returns None or raises;
\* update_grant_analysis returns False or raises; or every call succeeds
ItemOutcomes ==
    {"analysis_error", "analysis_raises", "save_none", "save_raises",
     "update_false", "update_raises", "ok"}

\* d[k] = v on a dict
DictSet(d, k, v) == (k :> v) @@ d

\* the analysis AnalystAgent.analyze_suitability returns for a candidate
AnalysisResult == [rationale |-> <<"fits">>, suitability_score |-> 8, status |-> <<"analyzed">>]
Rationale == AnalysisResult.rationale
Score == AnalysisResult.suitability_score
Status == AnalysisResult.status

GrantTitle(g) ==
    IF "title" \in DOMAIN g THEN g.title
    ELSE IF "grant_title" \in DOMAIN g THEN g.grant_title
    ELSE <<"Unknown Title">>

WithAnalysis(g) ==
    DictSet(DictSet(DictSet(g, "analysis_rationale", Rationale),
                    "analysis_suitability_score", Score),
            "analysis_status", Status)

\* DataManager.save_grant_opportunity: INSERT one row, AUTOINCREMENT id
save_grant_opportunity(rows, g) ==
    Append(rows, [id |-> Len(rows) + 1,
                  grant_title |-> GrantTitle(g),
                  analysis_notes |-> g.analysis_rationale,
                  suitability_score |-> g.analysis_suitability_score,
                  status |-> <<"identified">>])

\* DataManager.update_grant_analysis: UPDATE ... WHERE id = ?
update_grant_analysis(rows, id, notes, score, status) ==
    [i \in 1..Len(rows) |->
        IF rows[i].id = id
        THEN [rows[i] EXCEPT !.analysis_notes = notes, !.suitability_score = score,
                             !.status = status]
        ELSE rows[i]]

\* the loop body attempting the update although the save returned no id
AnalyzeItem_updates_unsaved(acc, g, o) ==
    LET title == GrantTitle(g)
        analyzed == WithAnalysis(g)
        id == Len(acc.rows) + 1
        saved == DictSet(analyzed, "database_id", id)
        call_analyze == [fn |-> "analyze_suitability", arg |-> title]
        call_save(res) == [fn |-> "save_grant_opportunity", arg |-> title, res |-> res]
        call_update == [fn |-> "update_grant_analysis", arg |-> IntText(id)]
        unexpected == <<"Unexpected error processing grant '">> \o title \o <<"': ">> \o Raise.val
        saved_log == <<"Grant '">> \o title \o <<"' saved with ID: ">> \o IntText(id) \o <<".">>
        updated_log == <<"Analysis status '">> \o Status \o <<"' updated for grant ID: ">>
                       \o IntText(id) \o <<".">>
    IN  CASE o = "analysis_raises" ->
                [acc EXCEPT !.list = Append(@, DictSet(g, "analysis_error", Raise.val)),
                            !.log = Append(@, unexpected),
                            !.calls = Append(@, call_analyze)]
          [] o = "analysis_error" ->
                [acc EXCEPT !.list = Append(@, DictSet(g, "analysis_error", <<"OpenAI API call failed">>)),
                            !.log = Append(@, <<"Analysis failed for grant '">> \o title
                                              \o <<"': OpenAI API call failed">>),
                            !.calls = Append(@, call_analyze)]
          [] o = "save_raises" ->
                [acc EXCEPT !.list = Append(@, DictSet(analyzed, "analysis_error", Raise.val)),
                            !.log = Append(@, unexpected),
                            !.calls = @ \o <<call_analyze, call_save(Raise.val)>>]
          [] o = "save_none" ->
                [acc EXCEPT !.list = Append(@, DictSet(analyzed, "analysis_error", <<"Database save failed">>)),
                            !.log = Append(@, <<"Failed to save grant '">> \o title
                                              \o <<"' to database.">>),
                            !.calls = @ \o <<call_analyze, call_save(None),
                                             [fn |-> "update_grant_analysis", arg |-> None]>>]
          [] o = "update_raises" ->
                [acc EXCEPT !.list = Append(@, DictSet(saved, "analysis_error", Raise.val)),
                            !.log = @ \o <<saved_log, unexpected>>,
                            !.rows = save_grant_opportunity(@, analyzed),
                            !.calls = @ \o <<call_analyze, call_save(IntText(id)), call_update>>]
          [] o = "update_false" ->
                [acc EXCEPT !.list = Append(@, saved),
                            !.log = @ \o <<saved_log, updated_log>>,
                            !.rows = save_grant_opportunity(@, analyzed),
                            !.calls = @ \o <<call_analyze, call_save(IntText(id)), call_update>>,
                            !.processed_count = @ + 1]
          [] OTHER ->
                [acc EXCEPT !.list = Append(@, saved),
                            !.log = @ \o <<saved_log, updated_log>>,
                            !.rows = update_grant_analysis(save_grant_opportunity(@, analyzed),
                                                           id, Rationale, Score, Status),
                            !.calls = @ \o <<call_analyze, call_save(IntText(id)), call_update>>,
                            !.processed_count = @ + 1]

\* one pass of the for loop of node_analyze_opportunities: acc carries the
\* output list, the log, the table, the calls and processed_count
AnalyzeItem(acc, g, o) ==
    LET title == GrantTitle(g)
        analyzed == WithAnalysis(g)
        id == Len(acc.rows) + 1
        saved == DictSet(analyzed, "database_id", id)
        call_analyze == [fn |-> "analyze_suitability", arg |-> title]
        call_save(res) == [fn |-> "save_grant_opportunity", arg |-> title, res |-> res]
        call_update == [fn |-> "update_grant_analysis", arg |-> IntText(id)]
        unexpected == <<"Unexpected error processing grant '">> \o title \o <<"': ">> \o Raise.val
        saved_log == <<"Grant '">> \o title \o <<"' saved with ID: ">> \o IntText(id) \o <<".">>
        updated_log == <<"Analysis status '">> \o Status \o <<"' updated for grant ID: ">>
                       \o IntText(id) \o <<".">>
    IN  CASE o = "analysis_raises" ->
                [acc EXCEPT !.list = Append(@, DictSet(g, "analysis_error", Raise.val)),
                            !.log = Append(@, unexpected),
                            !.calls = Append(@, call_analyze)]
          [] o = "analysis_error" ->
                [acc EXCEPT !.list = Append(@, DictSet(g, "analysis_error", <<"OpenAI API call failed">>)),
                            !.log = Append(@, <<"Analysis failed for grant '">> \o title
                                              \o <<"': OpenAI API call failed">>),
                            !.calls = Append(@, call_analyze)]
          [] o = "save_raises" ->
                [acc EXCEPT !.list = Append(@, DictSet(analyzed, "analysis_error", Raise.val)),
                            !.log = Append(@, unexpected),
                            !.calls = @ \o <<call_analyze, call_save(Raise.val)>>]
          [] o = "save_none" ->
                [acc EXCEPT !.list = Append(@, DictSet(analyzed, "analysis_error", <<"Database save failed">>)),
                            !.log = Append(@, <<"Failed to save grant '">> \o title
                                              \o <<"' to database.">>),
                            !.calls = @ \o <<call_analyze, call_save(None)>>]
          [] o = "update_raises" ->
                [acc EXCEPT !.list = Append(@, DictSet(saved, "analysis_error", Raise.val)),
                            !.log = @ \o <<saved_log, unexpected>>,
                            !.rows = save_grant_opportunity(@, analyzed),
                            !.calls = @ \o <<call_analyze, call_save(IntText(id)), call_update>>]
          [] o = "update_false" ->
                [acc EXCEPT !.list = Append(@, saved),
                            !.log = @ \o <<saved_log, updated_log>>,
                            !.rows = save_grant_opportunity(@, analyzed),
                            !.calls = @ \o <<call_analyze, call_save(IntText(id)), call_update>>,
                            !.processed_count = @ + 1]
          [] OTHER ->
                [acc EXCEPT !.list = Append(@, saved),
                            !.log = @ \o <<saved_log, updated_log>>,
                            !.rows = update_grant_analysis(save_grant_opportunity(@, analyzed),
                                                           id, Rationale, Score, Status),
                            !.calls = @ \o <<call_analyze, call_save(IntText(id)), call_update>>,
                            !.processed_count = @ + 1]

\* the for loop abandoning the batch at the first item that was not fully
\* processed
RECURSIVE AnalyzeLoop_stops_at_failure(_, _, _, _)
AnalyzeLoop_stops_at_failure(acc, opportunities, outcomes, i) ==
    IF i > Len(opportunities) THEN acc
    ELSE LET after == AnalyzeItem(acc, opportunities[i], outcomes[i])
         IN  IF after.processed_count = acc.processed_count THEN after
             ELSE AnalyzeLoop_stops_at_failure(after, opportunities, outcomes, i + 1)

RECURSIVE AnalyzeLoop(_, _, _, _)
AnalyzeLoop(acc, opportunities, outcomes, i) ==
    IF i > Len(opportunities) THEN acc
    ELSE AnalyzeLoop(AnalyzeItem(acc, opportunities[i], outcomes[i]),
                     opportunities, outcomes, i + 1)

\* node_analyze_opportunities reporting a node-level error when no item of the
\* batch was processed
AnalyzeOpportunities_all_failed_is_error(st, rows, outcomes) ==
    LET log == st.log_messages
        extracted_opportunities == st.extracted_grant_opportunities
    IN  IF ~DictTruthy(st.organization_profile)
        THEN LET msg == <<"Cannot analyze opportunities: Organization profile is missing from state.">>
             IN  [update |-> [error_message |-> msg,
                              log_messages |-> Append(log, msg),
                              extracted_grant_opportunities |-> extracted_opportunities],
                  rows |-> rows, calls |-> <<>>, input |-> st]
        ELSE IF extracted_opportunities = <<>>
        THEN [update |-> [log_messages |-> Append(log, <<"No extracted grant opportunities to analyze.">>),
                          extracted_grant_opportunities |-> <<>>,
                          error_message |-> None],
              rows |-> rows, calls |-> <<>>, input |-> st]
        ELSE LET acc == AnalyzeLoop([list |-> <<>>, log |-> log, rows |-> rows,
                                     calls |-> <<>>, processed_count |-> 0],
                                    extracted_opportunities, outcomes, 1)
                 n == Len(extracted_opportunities)
                 summary == <<"Analysis and saving process complete. ">>
                            \o IntText(acc.processed_count)
                            \o <<" grants successfully processed and saved with full analysis.">>
                 final_log_message ==
                     IF acc.processed_count # n
                     THEN summary \o <<" ">> \o IntText(n - acc.processed_count)
                          \o <<" grants had issues during processing.">>
                     ELSE summary
             IN  [update |-> [extracted_grant_opportunities |-> acc.list,
                              log_messages |-> Append(acc.log, final_log_message),
                              error_message |-> IF acc.processed_count = 0
                                                THEN final_log_message ELSE None],
                  rows |-> acc.rows, calls |-> acc.calls,
                  input |-> [st EXCEPT !.extracted_grant_opportunities = acc.list]]

\* node_analyze_opportunities treating an empty candidate list as an error
AnalyzeOpportunities_empty_is_error(st, rows, outcomes) ==
    LET log == st.log_messages
        extracted_opportunities == st.extracted_grant_opportunities
    IN  IF ~DictTruthy(st.organization_profile)
        THEN LET msg == <<"Cannot analyze opportunities: Organization profile is missing from state.">>
             IN  [update |-> [error_message |-> msg,
                              log_messages |-> Append(log, msg),
                              extracted_grant_opportunities |-> extracted_opportunities],
                  rows |-> rows, calls |-> <<>>, input |-> st]
        ELSE IF extracted_opportunities = <<>>
        THEN [update |-> [log_messages |-> Append(log, <<"No extracted grant opportunities to analyze.">>),
                          extracted_grant_opportunities |-> <<>>,
                          error_message |-> <<"No extracted grant opportunities to analyze.">>],
              rows |-> rows, calls |-> <<>>, input |-> st]
        ELSE LET acc == AnalyzeLoop([list |-> <<>>, log |-> log, rows |-> rows,
                                     calls |-> <<>>, processed_count |-> 0],
                                    extracted_opportunities, outcomes, 1)
                 n == Len(extracted_opportunities)
                 summary == <<"Analysis and saving process complete. ">>
                            \o IntText(acc.processed_count)
                            \o <<" grants successfully processed and saved with full analysis.">>
                 final_log_message ==
                     IF acc.processed_count # n
                     THEN summary \o <<" ">> \o IntText(n - acc.processed_count)
                          \o <<" grants had issues during processing.">>
                     ELSE summary
             IN  [update |-> [extracted_grant_opportunities |-> acc.list,
                              log_messages |-> Append(acc.log, final_log_message),
                              error_message |-> None],
                  rows |-> acc.rows, calls |-> acc.calls,
                  input |-> [st EXCEPT !.extracted_grant_opportunities = acc.list]]

\* node_analyze_opportunities with the table it writes to: the node's update,
\* the table afterwards, the calls it made, and input, the state object the
\* caller passed in as it is when the node returns.  The loop assigns
\* grant_info[...] on the dicts of the caller's list and appends those same
\* dicts to the output list, so the caller's list then holds the updated
\* dicts; log_messages is copied with list(...) and the early exits assign
\* nothing.
AnalyzeOpportunities(st, rows, outcomes) ==
    LET log == st.log_messages
        extracted_opportunities == st.extracted_grant_opportunities
    IN  IF ~DictTruthy(st.organization_profile)
        THEN LET msg == <<"Cannot analyze opportunities: Organization profile is missing from state.">>
             IN  [update |-> [error_message |-> msg,
                              log_messages |-> Append(log, msg),
                              extracted_grant_opportunities |-> extracted_opportunities],
                  rows |-> rows, calls |-> <<>>, input |-> st]
        ELSE IF extracted_opportunities = <<>>
        THEN [update |-> [log_messages |-> Append(log, <<"No extracted grant opportunities to analyze.">>),
                          extracted_grant_opportunities |-> <<>>,
                          error_message |-> None],
              rows |-> rows, calls |-> <<>>, input |-> st]
        ELSE LET acc == AnalyzeLoop([list |-> <<>>, log |-> log, rows |-> rows,
                                     calls |-> <<>>, processed_count |-> 0],
                                    extracted_opportunities, outcomes, 1)
                 n == Len(extracted_opportunities)
                 summary == <<"Analysis and saving process complete. ">>
                            \o IntText(acc.processed_count)
                            \o <<" grants successfully processed and saved with full analysis.">>
                 final_log_message ==
                     IF acc.processed_count # n
                     THEN summary \o <<" ">> \o IntText(n - acc.processed_count)
                          \o <<" grants had issues during processing.">>
                     ELSE summary
             IN  [update |-> [extracted_grant_opportunities |-> acc.list,
                              log_messages |-> Append(acc.log, final_log_message),
                              error_message |-> None],
                  rows |-> acc.rows, calls |-> acc.calls,
                  input |-> [st EXCEPT !.extracted_grant_opportunities = acc.list]]

node_analyze_opportunities(st, rows, outcomes) == AnalyzeOpportunities(st, rows, outcomes).update

----------------------------------------------------------------------------
(* DataManager: the tables and the operations callers use directly *)

\* what a DataManager call returned: ok is FALSE when sqlite3.Error was caught
NoResult == [op |-> "none"]
Result(op, ok, val) == [op |-> op, ok |-> ok, val |-> val]

\* the profiles callers save
ProfileData ==
    {[name |-> n, mission |-> m, projects |-> <<"P">>, needs |-> <<"N">>,
      target_demographics |-> <<"T">>] :
        n \in {<<"O","r","g">>, <<"N","G","O">>}, m \in {<<"m","1">>}}

\* save_organization_profile without the DELETE
save_organization_profile_keeps_history(rows, seq, data) ==
    [rows |-> Append(rows, [id |-> seq + 1] @@ data), seq |-> seq + 1]

\* DataManager.save_organization_profile: DELETE every row, INSERT one
save_organization_profile(rows, seq, data) ==
    [rows |-> Append(SelectSeq(rows, LAMBDA r : FALSE), [id |-> seq + 1] @@ data),
     seq |-> seq + 1]

\* DataManager.get_organization_profile: SELECT ... LIMIT 1
get_organization_profile(rows) == IF rows # <<>> THEN rows[1] ELSE NoneDict

\* the version argument of get_section_draft: None or an int
VersionArg(n) == [int |-> n]

\* the rows get_section_draft's query selects among
SectionMatches(rows, grant_opportunity_id, section_name, version) ==
    {i \in DOMAIN rows :
        /\ rows[i].grant_opportunity_id = grant_opportunity_id
        /\ rows[i].section_name = section_name
        /\ version # NoneDict => rows[i].version = version.int}

\* get_section_draft without ORDER BY version DESC: fetchone() returns the
\* matching row inserted first
get_section_draft_first_inserted(rows, grant_opportunity_id, section_name, version) ==
    LET matches == SectionMatches(rows, grant_opportunity_id, section_name, version)
    IN  IF matches = {} THEN {NoneDict}
        ELSE {rows[CHOOSE m \in matches : \A k \in matches : m <= k]}

\* DataManager.get_section_draft: the rows fetchone() may return; with
\* version None, ORDER BY version DESC LIMIT 1 picks a row of the highest
\* version (SQL leaves the order among equal versions open)
get_section_draft(rows, grant_opportunity_id, section_name, version) ==
    LET matches == SectionMatches(rows, grant_opportunity_id, section_name, version)
    IN  IF matches = {} THEN {NoneDict}
        ELSE IF version # NoneDict THEN {rows[i] : i \in matches}
        ELSE {rows[i] : i \in {m \in matches :
                                  \A k \in matches : rows[k].version <= rows[m].version}}

\* the subsequence of rows at the positions in keep
RECURSIVE SelectRows(_, _, _)
SelectRows(rows, keep, i) ==
    IF i > Len(rows) THEN <<>>
    ELSE (IF i \in keep THEN <<rows[i]>> ELSE <<>>) \o SelectRows(rows, keep, i + 1)

\* DataManager.get_all_sections_for_grant: the rows of the grant whose
\* version is MAX(version) of their section
get_all_sections_for_grant(rows, grant_opportunity_id) ==
    SelectRows(rows,
               {i \in DOMAIN rows :
                   /\ rows[i].grant_opportunity_id = grant_opportunity_id
                   /\ \A k \in DOMAIN rows :
                         (/\ rows[k].grant_opportunity_id = rows[i].grant_opportunity_id
                          /\ rows[k].section_name = rows[i].section_name)
                            => rows[k].version <= rows[i].version},
               1)

----------------------------------------------------------------------------
(* The engine: invoke a node, merge its update, follow the edge *)

\* the error_message values node updates set, with the new one appended
ErrorsAfter(upd) ==
    IF upd # Raised /\ "error_message" \in DOMAIN upd /\ upd.error_message # None
    THEN Append(errors, upd.error_message)
    ELSE errors

\* the state after the node's update is merged (unchanged if the node raised)
StateAfter(upd) == IF upd = Raised THEN state ELSE Merge(state, upd)

Init ==
    /\ app \in {"compiled", "None"}
    /\ run = "idle"
    /\ state = NoState
    /\ cur = "idle"
    /\ trace = <<>>
    /\ calls = <<>>
    /\ sections = <<>>
    /\ grants = <<>>
    /\ errors = <<>>
    /\ decision = "unset"
    /\ profile_rows = <<>>
    /\ profile_seq = 0
    /\ result = NoResult

\* run_*_workflow returning the initial state untouched when self.app is None
NotCompiled_returns_clean_state(initial_state, error_msg) == initial_state

\* what run_*_workflow returns when self.app is None
NotCompiled(initial_state, error_msg) ==
    [initial_state EXCEPT !.error_message = error_msg,
                          !.log_messages = Append(@, error_msg)]

RunResearchWorkflow ==
    /\ run = "idle"
    /\ \E url \in UrlArgs, credentials \in CredentialArgs, profile \in ProfileArgs :
          LET initial_state == ResearchInitialState(url, credentials, profile)
          IN  IF app = "None"
              THEN /\ state' = NotCompiled(initial_state,
                          <<"GraphOrchestrator: Workflow application (self.app) is not compiled or available. Cannot run workflow.">>)
                   /\ cur' = "NOT_RUN"
              ELSE /\ state' = initial_state
                   /\ cur' = EntryPoint
    /\ run' = "run_research_workflow"
    /\ UNCHANGED <<profile_rows, profile_seq, result, app, trace, calls, sections, grants, errors, decision>>

RunWritingWorkflow ==
    /\ run = "idle"
    /\ \E details \in GrantDetailsArgs, profile \in ProfileArgs, section \in SectionArgs :
          LET initial_state == WritingInitialState(details, profile, section)
          IN  IF app = "None"
              THEN /\ state' = NotCompiled(initial_state,
                          <<"GraphOrchestrator: Workflow application (self.app) is not compiled or available. Cannot run writing workflow.">>)
                   /\ cur' = "NOT_RUN"
              ELSE /\ state' = initial_state
                   /\ cur' = EntryPoint
    /\ run' = "run_writing_workflow"
    /\ UNCHANGED <<profile_rows, profile_seq, result, app, trace, calls, sections, grants, errors, decision>>

\* The compiled graph entered at draft_section, the node run_writing_workflow
\* names in next_node_to_call, on the state run_writing_workflow builds:
\* the draft/review loop of the graph on its own.
EnterDraftSection ==
    /\ run = "idle"
    /\ app = "compiled"
    /\ \E details \in GrantDetailsArgs, profile \in ProfileArgs, section \in SectionArgs :
          state' = WritingInitialState(details, profile, section)
    /\ cur' = "draft_section"
    /\ run' = "draft_section"
    /\ UNCHANGED <<profile_rows, profile_seq, result, app, trace, calls, sections, grants, errors, decision>>

Login ==
    /\ cur = "login"
    /\ \E o \in LoginOutcomes :
          LET upd == node_perform_login(state, o)
          IN  /\ state' = StateAfter(upd)
              /\ errors' = ErrorsAfter(upd)
              /\ cur' = after_login(StateAfter(upd))
    /\ trace' = Append(trace, "login")
    /\ calls' = calls \o LoginCalls(state)
    /\ UNCHANGED <<profile_rows, profile_seq, result, app, run, sections, grants, decision>>

Research ==
    /\ cur = "research"
    /\ \E o \in ResearchOutcomes :
          LET upd == node_research_and_extract(state, o)
          IN  /\ state' = StateAfter(upd)
              /\ errors' = ErrorsAfter(upd)
              /\ cur' = after_research(StateAfter(upd))
    /\ trace' = Append(trace, "research")
    /\ calls' = calls \o ResearchCalls(state)
    /\ UNCHANGED <<profile_rows, profile_seq, result, app, run, sections, grants, decision>>

AnalyzeOpportunitiesNode ==
    /\ cur = "analyze_opportunities"
    /\ \E outcomes \in [1..Len(state.extracted_grant_opportunities) -> ItemOutcomes] :
          LET r == AnalyzeOpportunities(state, grants, outcomes)
          IN  /\ state' = StateAfter(r.update)
              /\ errors' = ErrorsAfter(r.update)
              /\ cur' = after_analyze_opportunities(StateAfter(r.update))
              /\ grants' = r.rows
              /\ calls' = calls \o r.calls
    /\ trace' = Append(trace, "analyze_opportunities")
    /\ UNCHANGED <<profile_rows, profile_seq, result, app, run, sections, decision>>

DraftSection ==
    /\ cur = "draft_section"
    /\ \E o \in DraftOutcomes :
          LET upd == node_draft_section(state, o)
          IN  /\ state' = StateAfter(upd)
              /\ errors' = ErrorsAfter(upd)
              /\ calls' = calls \o DraftCalls(state, o)
    /\ cur' = "edit_section"
    /\ trace' = Append(trace, "draft_section")
    /\ UNCHANGED <<profile_rows, profile_seq, result, app, run, sections, grants, decision>>

EditSection ==
    /\ cur = "edit_section"
    /\ \E o \in ReviewOutcomes :
          LET upd == node_review_draft(state, o)
          IN  /\ state' = StateAfter(upd)
              /\ errors' = ErrorsAfter(upd)
              /\ IF upd = Raised
                 THEN cur' = "RAISED" /\ decision' = decision
                 ELSE /\ decision' = should_redraft_or_save(StateAfter(upd))
                      /\ cur' = EditSectionTargets(should_redraft_or_save(StateAfter(upd)))
              /\ calls' = calls \o ReviewCalls(state, o)
    /\ trace' = Append(trace, "edit_section")
    /\ UNCHANGED <<profile_rows, profile_seq, result, app, run, sections, grants>>

SaveSection ==
    /\ cur = "save_section"
    /\ \E o \in SaveOutcomes :
          LET upd == save_section_node(state, o, Len(sections) + 1)
              called == ~SavePrerequisiteMissing(state)
          IN  /\ state' = StateAfter(upd)
              /\ errors' = ErrorsAfter(upd)
              /\ sections' = IF called /\ o = "saved"
                             THEN save_section_draft(sections, SectionRow(state))
                             ELSE sections
              /\ calls' = IF called
                          THEN Append(calls, [fn |-> "save_section_draft",
                                              arg |-> state.current_draft_content,
                                              res |-> CASE o = "saved" -> IntText(Len(sections) + 1)
                                                        [] o = "returns_none" -> None
                                                        [] OTHER -> Raise.val])
                          ELSE calls
    /\ cur' = "END"
    /\ trace' = Append(trace, "save_section")
    /\ UNCHANGED <<profile_rows, profile_seq, result, app, run, grants, decision>>

HandleError ==
    /\ cur = "handle_error"
    /\ state' = StateAfter(handle_error_node(state))
    /\ errors' = ErrorsAfter(handle_error_node(state))
    /\ cur' = "END"
    /\ trace' = Append(trace, "handle_error")
    /\ UNCHANGED <<profile_rows, profile_seq, result, app, run, calls, sections, grants, decision>>

Next ==
    \/ RunResearchWorkflow
    \/ RunWritingWorkflow
    \/ EnterDraftSection
    \/ Login
    \/ Research
    \/ AnalyzeOpportunitiesNode
    \/ DraftSection
    \/ EditSection
    \/ SaveSection
    \/ HandleError

Spec == Init /\ [][Next]_vars

\* invoke() is synchronous: once started, the engine keeps invoking nodes
\* until it reaches END
FairSpec == Spec /\ WF_vars(Next)

----------------------------------------------------------------------------
(* The routing function after edit_section on its own, applied to any state *)

RouterErrors == {None, <<"Critical failure in prior node">>}

RouterStates ==
    {[WritingInitialState([grant_title |-> <<"G">>, id |-> GrantId], Profile, SectionName)
        EXCEPT !.error_message = e, !.iteration_count = n, !.editor_feedback = f,
               !.current_draft_content = <<"d","A">>] :
        e \in RouterErrors, n \in 0..MaxIterationInput, f \in FeedbackTexts \cup {None}}

RouterInit ==
    /\ app = "compiled"
    /\ run = "should_redraft_or_save"
    /\ state \in RouterStates
    /\ cur = "edit_section"
    /\ trace = <<"edit_section">>
    /\ calls = <<>>
    /\ sections = <<>>
    /\ grants = <<>>
    /\ errors = <<>>
    /\ decision = "unset"
    /\ profile_rows = <<>>
    /\ profile_seq = 0
    /\ result = NoResult

\* the engine evaluates the conditional edge after edit_section
ApplyRouting ==
    /\ run = "should_redraft_or_save"
    /\ decision = "unset"
    /\ decision' = should_redraft_or_save(state)
    /\ cur' = EditSectionTargets(should_redraft_or_save(state))
    /\ UNCHANGED <<profile_rows, profile_seq, result, app, run, state, trace, calls, sections, grants, errors>>

RouterNext == ApplyRouting

RouterSpec == RouterInit /\ [][RouterNext]_vars

----------------------------------------------------------------------------
(* The node functions of the loop and the error handler on their own, each  *)
(* invoked on any state, as the unit tests invoke them                      *)

NodeStates ==
    {[WritingInitialState(d, Profile, s)
        EXCEPT !.current_grant_opportunity_id = id, !.current_draft_content = c,
               !.error_message = e, !.editor_feedback = f] :
        d \in {NoneDict, [grant_title |-> <<"G">>, id |-> GrantId]},
        s \in SectionArgs, id \in {None, GrantId}, c \in {None, <<>>, <<"d","A">>},
        e \in RouterErrors, f \in {None, <<>>, approval_keywords[1]}}

NodeInit ==
    /\ app = "compiled"
    /\ run = "node"
    /\ state \in NodeStates
    /\ cur \in {"draft_section", "edit_section", "save_section", "handle_error"}
    /\ trace = <<>>
    /\ calls = <<>>
    /\ sections = <<>>
    /\ grants = <<>>
    /\ errors = <<>>
    /\ decision = "unset"
    /\ profile_rows = <<>>
    /\ profile_seq = 0
    /\ result = NoResult

NodeNext ==
    \/ DraftSection
    \/ EditSection
    \/ SaveSection
    \/ HandleError

NodeSpec == NodeInit /\ [][NodeNext]_vars

----------------------------------------------------------------------------
(* Several writing tasks one after the other on one database: the           *)
(* draft/review loop is entered, runs to its end, returns, and is entered   *)
(* again                                                                    *)

MaxSavedSections == 2

WritingInit ==
    /\ Init
    /\ app = "compiled"

\* invoke() returns the final state to the caller; the next invocation builds
\* a fresh initial state, and the database file keeps its rows.  trace, calls
\* and errors record one invocation and start empty for the next.
WorkflowReturns ==
    /\ run = "draft_section"
    /\ cur \in {"END", "RAISED"}
    /\ Len(sections) < MaxSavedSections
    /\ run' = "idle"
    /\ cur' = "idle"
    /\ state' = NoState
    /\ trace' = <<>>
    /\ calls' = <<>>
    /\ errors' = <<>>
    /\ decision' = "unset"
    /\ UNCHANGED <<app, sections, grants, profile_rows, profile_seq, result>>

WritingNext ==
    \/ EnterDraftSection
    \/ DraftSection
    \/ EditSection
    \/ SaveSection
    \/ HandleError
    \/ WorkflowReturns

WritingSpec == WritingInit /\ [][WritingNext]_vars

----------------------------------------------------------------------------
(* DataManager used directly by a caller: any sequence of its operations *)

MaxWrites == 3    \* rows inserted over a sequence of DataManager calls
MaxVersion == 2   \* largest version number a caller passes to save_section_draft

GatewayGrantIds == {GrantId, <<"8">>}
GatewaySectionNames == {SectionName, <<"Budget">>}

GatewayInit ==
    /\ app = "compiled"
    /\ run = "DataManager"
    /\ state = NoState
    /\ cur = "idle"
    /\ trace = <<>>
    /\ calls = <<>>
    /\ sections = <<>>
    /\ grants = <<>>
    /\ errors = <<>>
    /\ decision = "unset"
    /\ profile_rows = <<>>
    /\ profile_seq = 0
    /\ result = NoResult

\* the rows inserted so far
Writes == Len(sections) + Len(grants) + profile_seq

engine == <<app, run, state, cur, trace, calls, errors, decision>>

SaveOrganizationProfile ==
    /\ run = "DataManager"
    /\ \E data \in ProfileData, ok \in BOOLEAN :
          IF ok
          THEN /\ Writes < MaxWrites
               /\ profile_rows' = save_organization_profile(profile_rows, profile_seq, data).rows
               /\ profile_seq' = save_organization_profile(profile_rows, profile_seq, data).seq
               /\ result' = Result("save_organization_profile", TRUE, data)
          ELSE /\ UNCHANGED <<profile_rows, profile_seq>>
               /\ result' = Result("save_organization_profile", FALSE, data)
    /\ UNCHANGED <<engine, sections, grants>>

GetOrganizationProfile ==
    /\ run = "DataManager"
    /\ \E ok \in BOOLEAN :
          result' = Result("get_organization_profile", ok,
                           IF ok THEN get_organization_profile(profile_rows) ELSE NoneDict)
    /\ UNCHANGED <<engine, sections, grants, profile_rows, profile_seq>>

SaveGrantOpportunity ==
    /\ run = "DataManager"
    /\ \E g \in GrantInfos, ok \in BOOLEAN :
          IF ok
          THEN /\ Writes < MaxWrites
               /\ grants' = save_grant_opportunity(grants, WithAnalysis(g))
               /\ result' = Result("save_grant_opportunity", TRUE, IntText(Len(grants) + 1))
          ELSE /\ UNCHANGED grants
               /\ result' = Result("save_grant_opportunity", FALSE, None)
    /\ UNCHANGED <<engine, sections, profile_rows, profile_seq>>

UpdateGrantAnalysis ==
    /\ run = "DataManager"
    /\ \E id \in 1..MaxWrites, status \in {Status, <<"rejected">>}, ok \in BOOLEAN :
          /\ grants' = IF ok THEN update_grant_analysis(grants, id, Rationale, Score, status)
                        ELSE grants
          /\ result' = Result("update_grant_analysis", ok, IntText(id))
    /\ UNCHANGED <<engine, sections, profile_rows, profile_seq>>

SaveSectionDraft ==
    /\ run = "DataManager"
    /\ \E id \in GatewayGrantIds, name \in GatewaySectionNames, v \in 1..MaxVersion,
          ok \in BOOLEAN :
          IF ok
          THEN /\ Writes < MaxWrites
               /\ sections' = save_section_draft(sections,
                                  [grant_opportunity_id |-> id, section_name |-> name,
                                   draft_content |-> <<"d","A">>, version |-> v,
                                   feedback |-> <<>>])
               /\ result' = Result("save_section_draft", TRUE, IntText(Len(sections) + 1))
          ELSE /\ UNCHANGED sections
               /\ result' = Result("save_section_draft", FALSE, None)
    /\ UNCHANGED <<engine, grants, profile_rows, profile_seq>>

GetSectionDraft ==
    /\ run = "DataManager"
    /\ \E id \in GatewayGrantIds, name \in GatewaySectionNames,
          version \in {NoneDict} \cup {VersionArg(n) : n \in 1..MaxVersion},
          ok \in BOOLEAN :
          \E row \in IF ok THEN get_section_draft(sections, id, name, version)
                      ELSE {NoneDict} :
             result' = [op |-> "get_section_draft", ok |-> ok, val |-> row,
                        grant_opportunity_id |-> id, section_name |-> name,
                        version |-> version]
    /\ UNCHANGED <<engine, sections, grants, profile_rows, profile_seq>>

GetAllSectionsForGrant ==
    /\ run = "DataManager"
    /\ \E id \in GatewayGrantIds, ok \in BOOLEAN :
          result' = [op |-> "get_all_sections_for_grant", ok |-> ok,
                     val |-> IF ok THEN get_all_sections_for_grant(sections, id) ELSE <<>>,
                     grant_opportunity_id |-> id]
    /\ UNCHANGED <<engine, sections, grants, profile_rows, profile_seq>>

GatewayNext ==
    \/ SaveOrganizationProfile
    \/ GetOrganizationProfile
    \/ SaveGrantOpportunity
    \/ UpdateGrantAnalysis
    \/ SaveSectionDraft
    \/ GetSectionDraft
    \/ GetAllSectionsForGrant

GatewaySpec == GatewayInit /\ [][GatewayNext]_vars

----------------------------------------------------------------------------
(* Properties *)

\* how often node n was invoked
Invocations(n) == Cardinality({i \in DOMAIN trace : trace[i] = n})

LastNode == IF trace = <<>> THEN "none" ELSE trace[Len(trace)]

Critical == <<"N","e","e","d","s"," ","w","o","r","k">>

\* C1: every execution that starts at the draft node with iteration_count = 0
\* reaches END, and draft and review are each invoked at most max_iterations
\* (3) times, whatever the writer, the reviewer and the feedback do.
C1_LoopTerminates ==
    /\ [](run = "draft_section" =>
            /\ Invocations("draft_section") <= max_iterations
            /\ Invocations("edit_section") <= max_iterations)
    /\ (run = "draft_section" ~> cur = "END")

\* the third draft is accepted although its feedback is critical
C1_Witness ==
    /\ run = "draft_section"
    /\ cur = "END"
    /\ Invocations("draft_section") = max_iterations
    /\ Invocations("edit_section") = max_iterations
    /\ state.editor_feedback = Critical
    /\ LastNode = "save_section"

\* the routing function has been applied to the state
Routed == run = "should_redraft_or_save" /\ decision # "unset"

\* feedback contains the phrase kw in some letter case
ContainsAnyCase(s, kw) ==
    \E i \in 0..(Len(s) - Len(kw)) :
        \A j \in 1..Len(kw) : s[i + j] \in {kw[j], UpperChar(kw[j])}

HasApprovalPhrase(s) ==
    \E k \in 1..Len(approval_keywords) : ContainsAnyCase(s, approval_keywords[k])

\* C2: with error set, routing after review returns handle_error for every
\* iteration_count and every feedback string.
C2_ErrorOverrides ==
    (Routed /\ state.error_message # None /\ state.editor_feedback # None)
        => decision = "handle_error"

\* error set, the cap exceeded and approving feedback: still handle_error
C2_Witness ==
    /\ Routed
    /\ state.error_message # None
    /\ state.iteration_count > max_iterations
    /\ HasApprovalPhrase(state.editor_feedback)
    /\ decision = "handle_error"

\* C3: with no error and iteration_count >= 3, routing after review returns
\* save_section for every feedback string.
C3_CapForcesSave ==
    (Routed /\ state.error_message = None /\ state.editor_feedback # None
            /\ state.iteration_count >= max_iterations)
        => decision = "save_section"

\* whitespace-only feedback at exactly the cap is saved
C3_Witness ==
    /\ Routed
    /\ state.error_message = None
    /\ state.iteration_count = max_iterations
    /\ state.editor_feedback = <<" "," "," ">>
    /\ decision = "save_section"

\* C4: with no error and iteration_count < 3, feedback that contains an
\* approval phrase in any letter case is routed to save_section.
C4_ApprovalSaves ==
    (Routed /\ state.error_message = None /\ state.editor_feedback # None
            /\ state.iteration_count < max_iterations
            /\ HasApprovalPhrase(state.editor_feedback))
        => decision = "save_section"

\* "Hm: APPROVED!" before the cap is saved
C4_Witness ==
    /\ Routed
    /\ state.error_message = None
    /\ state.iteration_count = 1
    /\ state.editor_feedback = <<"H","m",":"," ">> \o Upper(approval_keywords[2]) \o <<"!">>
    /\ decision = "save_section"

\* C5: with no error and iteration_count < 3, feedback that is empty,
\* whitespace only, or without an approval phrase is routed back to draft.
C5_NoApprovalRedrafts ==
    (Routed /\ state.error_message = None /\ state.editor_feedback # None
            /\ state.iteration_count < max_iterations
            /\ ~HasApprovalPhrase(state.editor_feedback))
        => decision = "draft_section_again"

\* the near miss "approve" before the cap is sent back to draft
C5_Witness ==
    /\ Routed
    /\ state.error_message = None
    /\ state.iteration_count = 2
    /\ state.editor_feedback = <<"a","p","p","r","o","v","e">>
    /\ decision = "draft_section_again"
    /\ cur = "draft_section"

\* the writer calls made so far
WriterCalls == Cardinality({i \in DOMAIN calls : calls[i].fn = "draft_section"})

\* C6 as stated: after N invocations of the draft node, iteration_count = N,
\* whatever the state holds and whatever the writer does.
C6_Original ==
    run = "draft_section" => state.iteration_count = Invocations("draft_section")

\* C6 amended: iteration_count equals the number of draft invocations that
\* found record details, profile and section name present, which are the
\* invocations that called the writer; each of them adds exactly one, whether
\* the writer succeeds, returns its error string or raises, and an invocation
\* with a missing prerequisite leaves the counter as it was.
C6_CountsAttempts ==
    /\ run = "draft_section" => state.iteration_count = WriterCalls
    /\ (run = "draft_section" /\ Invocations("draft_section") > WriterCalls)
          => (Invocations("draft_section") = 1 /\ DraftPrerequisiteMissing(state))

\* the second attempt failed in the writer and was counted
C6_Witness ==
    /\ run = "draft_section"
    /\ LastNode = "draft_section"
    /\ Invocations("draft_section") = 2
    /\ state.error_message # None
    /\ state.iteration_count = 2

\* C7 as stated: run_writing_workflow invokes draft first and never invokes
\* login, research or analyze_opportunities.
C7_Original ==
    (run = "run_writing_workflow" /\ trace # <<>>)
        => /\ trace[1] = "draft_section"
           /\ \A i \in DOMAIN trace :
                 trace[i] \notin {"login", "research", "analyze_opportunities"}

Nodes ==
    {"login", "research", "analyze_opportunities", "draft_section", "edit_section",
     "save_section", "handle_error"}

Appended(old, new) == SubSeq(new, Len(old) + 1, Len(new))

\* C11: the error-handler changes only the log: it appends exactly one entry,
\* which contains the current error, its update has no error key, and after
\* the merge error and every other field are what they were before.
C11_HandlerOnlyLogs ==
    [][HandleError =>
          /\ "error_message" \notin DOMAIN handle_error_node(state)
          /\ \A k \in DOMAIN state \ {"log_messages"} : state'[k] = state[k]
          /\ DOMAIN state' = DOMAIN state
          /\ Len(state'.log_messages) = Len(state.log_messages) + 1
          /\ SubSeq(state'.log_messages, 1, Len(state.log_messages)) = state.log_messages
          /\ Contains(state'.log_messages[Len(state'.log_messages)], state.error_message)]_vars

\* the handler ran on a state with an error and a non-empty log
C11_Witness ==
    /\ run = "node"
    /\ trace = <<"handle_error">>
    /\ state.error_message = <<"Critical failure in prior node">>
    /\ Len(state.log_messages) = 2
    /\ cur = "END"

\* C12: in every execution of either workflow, once error is set it is set in
\* every later state, the final state included: no node's update puts None
\* back over a set error.
C12_ErrorStaysSet ==
    [][(run # "idle" /\ state.error_message # None) => state'.error_message # None]_vars

\* draft set an error, review replaced it by its own, the handler kept it
C12_Witness ==
    /\ run = "draft_section"
    /\ trace = <<"draft_section", "edit_section", "handle_error">>
    /\ cur = "END"
    /\ Len(errors) = 2
    /\ state.error_message = errors[2]

\* C13: in the research workflow, research (extract) is invoked only on a
\* state with a session handle and analyze_opportunities (score) only directly
\* after a research that left no error; when login yields no session the next
\* node is the error-handler, and research and analyze_opportunities are
\* never invoked in that execution.
C13_ResearchGating ==
    /\ [][Research => Truthy(state.authenticated_driver_session)]_vars
    /\ [][AnalyzeOpportunitiesNode =>
             (LastNode = "research" /\ state.error_message = None)]_vars
    /\ [][(Login /\ ~Truthy(state'.authenticated_driver_session))
             => cur' = "handle_error"]_vars
    /\ []((run = "run_research_workflow" /\ trace # <<>>
              /\ ~Truthy(state.authenticated_driver_session))
             => \A i \in DOMAIN trace :
                   trace[i] \notin {"research", "analyze_opportunities"})

\* perform_website_login was called and returned no driver: the execution
\* ended through the error-handler without research
C13_Witness ==
    /\ run = "run_research_workflow"
    /\ trace = <<"login", "handle_error">>
    /\ Len(calls) = 1
    /\ calls[1].fn = "perform_website_login"
    /\ state.authenticated_driver_session = None
    /\ cur = "END"

\* C14: when analyze_opportunities (score) runs with no profile in state
\* (None or empty), it returns a node-level error at once and calls neither
\* the analyst nor save_grant_opportunity nor update_grant_analysis, for any
\* candidate list.
C14_NoProfileFailsFast ==
    [][(AnalyzeOpportunitiesNode /\ state.organization_profile \in {NoneDict, EmptyDict})
          => /\ state'.error_message =
                   <<"Cannot analyze opportunities: Organization profile is missing from state.">>
             /\ calls' = calls
             /\ grants' = grants
             /\ state'.extracted_grant_opportunities = state.extracted_grant_opportunities
             /\ cur' = "handle_error"]_vars

\* two candidates were extracted and no profile was given: only the login and
\* the extraction were called
C14_Witness ==
    /\ LastNode = "analyze_opportunities"
    /\ state.organization_profile = EmptyDict
    /\ Len(state.extracted_grant_opportunities) = MaxGrants
    /\ state.error_message # None
    /\ Len(calls) = 2
    /\ grants = <<>>

\* what happens to an item of a batch in which scoring fails for some items
\* and everything succeeds for the others
ScoringOutcomes == {"analysis_error", "analysis_raises", "ok"}

\* a log line reporting that an item failed
FailureLine(l) ==
    l[1] \in {"Analysis failed for grant '", "Unexpected error processing grant '",
              "Failed to save grant '"}

\* a log line reporting that an item was saved
SavedLine(l) == l[1] = "Grant '" /\ Contains(l, <<"' saved with ID: ">>)

\* C15: for a batch in analyze_opportunities where scoring fails for some
\* items (error result or exception) and succeeds for the others, the update
\* has error None, the output list keeps every item in input order, each
\* failed item carries analysis_error and no database_id, each successful
\* item carries the database_id of its row and its analysis fields, and the
\* log gains one failure line per failed item and one saved line per saved
\* item.
C15_MixedBatch ==
    [][AnalyzeOpportunitiesNode =>
          LET in == state.extracted_grant_opportunities
              out == state'.extracted_grant_opportunities
              new == Appended(state.log_messages, state'.log_messages)
          IN  \A outcomes \in [DOMAIN in -> ScoringOutcomes] :
                 LET r == AnalyzeOpportunities(state, grants, outcomes)
                     failed == {i \in DOMAIN in : outcomes[i] # "ok"}
                 IN  (/\ state.organization_profile \notin {NoneDict, EmptyDict}
                      /\ in # <<>>
                      /\ state' = Merge(state, r.update)
                      /\ grants' = r.rows
                      /\ calls' = calls \o r.calls)
                     => /\ state'.error_message = None
                        /\ Len(out) = Len(in)
                        /\ \A i \in DOMAIN in : \A k \in DOMAIN in[i] :
                              k \in DOMAIN out[i] /\ out[i][k] = in[i][k]
                        /\ \A i \in failed :
                              /\ "analysis_error" \in DOMAIN out[i]
                              /\ "database_id" \notin DOMAIN out[i]
                        /\ \A i \in DOMAIN in \ failed :
                              /\ "analysis_error" \notin DOMAIN out[i]
                              /\ "database_id" \in DOMAIN out[i]
                              /\ \E j \in DOMAIN grants' :
                                    /\ grants'[j].id = out[i].database_id
                                    /\ grants'[j].grant_title = GrantTitle(in[i])
                              /\ out[i].analysis_rationale = Rationale
                              /\ out[i].analysis_suitability_score = Score
                              /\ out[i].analysis_status = Status
                        /\ Cardinality({j \in DOMAIN new : FailureLine(new[j])})
                              = Cardinality(failed)
                        /\ Cardinality({j \in DOMAIN new : SavedLine(new[j])})
                              = Len(in) - Cardinality(failed)]_vars

\* the analyst raised for the first of two candidates and the second was saved
C15_Witness ==
    /\ LastNode = "analyze_opportunities"
    /\ cur = "END"
    /\ state.error_message = None
    /\ Len(state.extracted_grant_opportunities) = 2
    /\ "analysis_error" \in DOMAIN state.extracted_grant_opportunities[1]
    /\ "database_id" \notin DOMAIN state.extracted_grant_opportunities[1]
    /\ "database_id" \in DOMAIN state.extracted_grant_opportunities[2]
    /\ Len(grants) = 1

\* what happens to an item whose scoring call or whose save fails
FailingOutcomes == {"analysis_error", "analysis_raises", "save_none", "save_raises"}

\* every item of the output list failed before it got a row
AllItemsFailed ==
    /\ LastNode = "analyze_opportunities"
    /\ state.organization_profile \notin {NoneDict, EmptyDict}
    /\ state.extracted_grant_opportunities # <<>>
    /\ \A i \in DOMAIN state.extracted_grant_opportunities :
          /\ "analysis_error" \in DOMAIN state.extracted_grant_opportunities[i]
          /\ "database_id" \notin DOMAIN state.extracted_grant_opportunities[i]

\* C16 as stated: when every item of a non-empty batch fails in
\* analyze_opportunities, the update sets a node-level error and routing goes
\* to the error-handler.
C16_Original ==
    AllItemsFailed => (state.error_message # None /\ cur = "handle_error")

\* C16 amended: when every item of a non-empty batch fails (each scoring call
\* or each save), the update still has error None: every item carries its
\* failure marker and no database_id, no row is written, the summary line
\* reports 0 processed and all N with issues, and routing goes to END.
C16_AllFailedReportsNone ==
    [][AnalyzeOpportunitiesNode =>
          LET in == state.extracted_grant_opportunities
              out == state'.extracted_grant_opportunities
              log == state'.log_messages
          IN  \A outcomes \in [DOMAIN in -> FailingOutcomes] :
                 LET r == AnalyzeOpportunities(state, grants, outcomes)
                 IN  (/\ state.organization_profile \notin {NoneDict, EmptyDict}
                      /\ in # <<>>
                      /\ state' = Merge(state, r.update)
                      /\ grants' = r.rows
                      /\ calls' = calls \o r.calls)
                     => /\ state'.error_message = None
                        /\ cur' = "END"
                        /\ grants' = grants
                        /\ Len(out) = Len(in)
                        /\ \A i \in DOMAIN in :
                              /\ "analysis_error" \in DOMAIN out[i]
                              /\ "database_id" \notin DOMAIN out[i]
                        /\ log[Len(log)] =
                              <<"Analysis and saving process complete. ">> \o IntText(0)
                              \o <<" grants successfully processed and saved with full analysis.">>
                              \o <<" ">> \o IntText(Len(in))
                              \o <<" grants had issues during processing.">>]_vars

\* scoring failed for one candidate and the save for the other: the execution
\* ended without error and without the error-handler
C16_Witness ==
    /\ AllItemsFailed
    /\ Len(state.extracted_grant_opportunities) = 2
    /\ \E i \in DOMAIN calls : calls[i].fn = "save_grant_opportunity"
    /\ Cardinality({i \in DOMAIN calls : calls[i].fn = "analyze_suitability"}) = 2
    /\ state.error_message = None
    /\ cur = "END"

\* how many of the calls cs went to fn
CallsTo(cs, fn) == Cardinality({j \in DOMAIN cs : cs[j].fn = fn})

\* C17: in analyze_opportunities, update_grant_analysis is called for an item
\* only directly after save_grant_opportunity returned an id for that item
\* (the id of the row just written); when save_grant_opportunity returns None
\* the item gets the failure marker and no database_id, no update is
\* attempted for it, and the loop goes on to the next item.
C17_UpdateOnlyAfterSave ==
    [][AnalyzeOpportunitiesNode =>
          LET in == state.extracted_grant_opportunities
              out == state'.extracted_grant_opportunities
              new == Appended(calls, calls')
              \* the item the j-th call was made for
              item(j) == CallsTo(SubSeq(new, 1, j), "analyze_suitability")
          IN  /\ \A j \in DOMAIN new :
                    new[j].fn = "update_grant_analysis"
                       => /\ j > 1
                          /\ new[j - 1].fn = "save_grant_opportunity"
                          /\ new[j - 1].res = new[j].arg
                          /\ \E k \in DOMAIN grants' :
                                /\ k \notin DOMAIN grants
                                /\ IntText(grants'[k].id) = new[j].arg
                                /\ grants'[k].grant_title = new[j - 1].arg
              /\ (state.organization_profile \notin {NoneDict, EmptyDict} /\ in # <<>>)
                    => /\ Len(out) = Len(in)
                       /\ CallsTo(new, "analyze_suitability") = Len(in)
                       /\ \A j \in DOMAIN new :
                             (new[j].fn = "save_grant_opportunity" /\ new[j].res = None)
                                => /\ j = Len(new) \/ new[j + 1].fn = "analyze_suitability"
                                   /\ out[item(j)].analysis_error = <<"Database save failed">>
                                   /\ "database_id" \notin DOMAIN out[item(j)]
                                   /\ item(j) < Len(in) => j < Len(new)]_vars

\* the save returned None for the first candidate; the second was analysed,
\* saved and updated
C17_Witness ==
    /\ LastNode = "analyze_opportunities"
    /\ Len(state.extracted_grant_opportunities) = 2
    /\ "analysis_error" \in DOMAIN state.extracted_grant_opportunities[1]
    /\ state.extracted_grant_opportunities[1].analysis_error = <<"Database save failed">>
    /\ "database_id" \in DOMAIN state.extracted_grant_opportunities[2]
    /\ CallsTo(calls, "save_grant_opportunity") = 2
    /\ \E j \in DOMAIN calls : calls[j].fn = "save_grant_opportunity" /\ calls[j].res = None
    /\ CallsTo(calls, "update_grant_analysis") = 1
    /\ Len(grants) = 1
    /\ grants[1].status = Status

\* C18: when analyze_opportunities runs with a profile and an empty candidate
\* list it is a no-op success: error None, the list stays empty, neither the
\* analyst nor the data manager is called, and the execution ends.
C18_EmptyBatchNoOp ==
    [][(AnalyzeOpportunitiesNode
          /\ state.organization_profile \notin {NoneDict, EmptyDict}
          /\ state.extracted_grant_opportunities = <<>>)
          => /\ state'.error_message = None
             /\ state'.extracted_grant_opportunities = <<>>
             /\ calls' = calls
             /\ grants' = grants
             /\ Appended(state.log_messages, state'.log_messages)
                   = << <<"No extracted grant opportunities to analyze.">> >>
             /\ cur' = "END"]_vars

\* the extractor found nothing and the workflow ended without error
C18_Witness ==
    /\ trace = <<"login", "research", "analyze_opportunities">>
    /\ state.organization_profile = Profile
    /\ state.extracted_grant_opportunities = <<>>
    /\ state.error_message = None
    /\ Len(calls) = 2
    /\ grants = <<>>
    /\ cur = "END"

\* a text-valued field that is missing or empty
Missing(x) == x \in {None, <<>>}

\* C19: prerequisite failures are fail-fast in review and in save_section:
\* review with a missing section name or a missing or empty draft, and
\* save_section with a missing record id, section name or missing or empty
\* draft content, set error (and log it) and return without calling the
\* reviewer or save_section_draft.
C19_PrerequisitesFailFast ==
    /\ [][(EditSection /\ (\/ Missing(state.current_section_name)
                            \/ Missing(state.current_draft_content)))
             => /\ state'.error_message # None
                /\ Appended(state.log_messages, state'.log_messages)
                      = <<state'.error_message>>
                /\ calls' = calls
                /\ sections' = sections]_vars
    /\ [][(SaveSection /\ (\/ Missing(state.current_grant_opportunity_id)
                            \/ Missing(state.current_section_name)
                            \/ Missing(state.current_draft_content)))
             => /\ state'.error_message # None
                /\ Appended(state.log_messages, state'.log_messages)
                      = <<state'.error_message>>
                /\ calls' = calls
                /\ sections' = sections]_vars

\* save_section ran with record id and section name present and an empty
\* draft: it set its error and wrote nothing
C19_Witness ==
    /\ run = "node"
    /\ trace = <<"save_section">>
    /\ state.current_grant_opportunity_id = GrantId
    /\ state.current_section_name = SectionName
    /\ state.current_draft_content = <<>>
    /\ state.error_message =
          <<"Save section failed: Missing or empty current_draft_content in state.">>
    /\ calls = <<>>
    /\ sections = <<>>

\* C20: when the prerequisites of save_section hold, save_section_draft is
\* called once; if it returns None or raises, save_section sets a node-level
\* error and logs it and no row is written; if it returns an id,
\* save_section returns error None and logs the saved version and the id of
\* the new row.
C20_SaveOutcome ==
    [][(SaveSection /\ ~Missing(state.current_grant_opportunity_id)
                    /\ ~Missing(state.current_section_name)
                    /\ ~Missing(state.current_draft_content))
          => LET new == Appended(calls, calls')
                 log == Appended(state.log_messages, state'.log_messages)
             IN  /\ Len(new) = 1
                 /\ new[1].fn = "save_section_draft"
                 /\ Len(log) = 1
                 /\ new[1].res = None
                       => /\ state'.error_message # None
                          /\ Contains(state'.error_message, <<". DataManager returned None.">>)
                          /\ log[1] = state'.error_message
                          /\ sections' = sections
                 /\ new[1].res = Raise.val
                       => /\ state'.error_message # None
                          /\ Contains(state'.error_message, Raise.val)
                          /\ log[1] = state'.error_message
                          /\ sections' = sections
                 /\ new[1].res \notin {None, Raise.val}
                       => /\ state'.error_message = None
                          /\ Len(sections') = Len(sections) + 1
                          /\ IntText(sections'[Len(sections')].id) = new[1].res
                          /\ sections'[Len(sections')].version = state.iteration_count
                          /\ sections'[Len(sections')].draft_content = state.current_draft_content
                          /\ Contains(log[1], <<"' (Version ">> \o IntText(state.iteration_count)
                                               \o <<") saved to database with ID: ">>
                                               \o new[1].res)]_vars

\* save_section_draft returned None: the error is set and logged, no row
C20_Witness ==
    /\ run = "node"
    /\ trace = <<"save_section">>
    /\ Len(calls) = 1
    /\ calls[1].fn = "save_section_draft"
    /\ calls[1].res = None
    /\ state.error_message # None
    /\ Contains(state.error_message, <<". DataManager returned None.">>)
    /\ sections = <<>>
    /\ cur = "END"

\* the position of the last call to fn in the call history (0 if none)
LastCallTo(fn) ==
    IF \E j \in DOMAIN calls : calls[j].fn = fn
    THEN CHOOSE j \in DOMAIN calls :
            calls[j].fn = fn /\ \A k \in DOMAIN calls : calls[k].fn = fn => k <= j
    ELSE 0

\* C21: save_section writes one row whose version is the current
\* iteration_count and whose draft text and feedback are the state's
\* current_draft_content and editor_feedback; in an execution of the
\* draft/review loop the saved feedback is what the reviewer returned for
\* exactly the saved draft, which is the writer's latest draft.
C21_RowCarriesLatestReview ==
    [][(SaveSection /\ sections' # sections) =>
          LET row == sections'[Len(sections')]
              review == LastCallTo("review_draft")
              draft == LastCallTo("draft_section")
          IN  /\ Len(sections') = Len(sections) + 1
              /\ SubSeq(sections', 1, Len(sections)) = sections
              /\ row.grant_opportunity_id = state.current_grant_opportunity_id
              /\ row.section_name = state.current_section_name
              /\ row.version = state.iteration_count
              /\ row.draft_content = state.current_draft_content
              /\ row.feedback = state.editor_feedback
              /\ run = "draft_section"
                    => /\ 0 < draft /\ draft < review
                       /\ calls[draft].res = row.draft_content
                       /\ calls[review].arg = row.draft_content
                       /\ calls[review].res = row.feedback]_vars

\* the second draft was approved and saved as version 2 with that approval
C21_Witness ==
    /\ run = "draft_section"
    /\ cur = "END"
    /\ Invocations("draft_section") = 2
    /\ Len(sections) = 1
    /\ sections[1].version = 2
    /\ sections[1].draft_content = <<"d","B">>
    /\ sections[1].feedback = approval_keywords[1]

\* C22: after any sequence of one or more successful
\* save_organization_profile calls the table holds exactly one row, which
\* carries the data of the most recent successful call (only a successful
\* save changes the table, and it leaves just its own row), and
\* get_organization_profile returns that row.
C22_ProfileSingleton ==
    /\ [](profile_seq > 0 => Len(profile_rows) = 1)
    /\ [][(result'.op = "save_organization_profile" /\ SaveOrganizationProfile /\ result'.ok)
             => /\ Len(profile_rows') = 1
                /\ \A k \in DOMAIN result'.val : profile_rows'[1][k] = result'.val[k]]_vars
    /\ [][profile_rows' # profile_rows
             => (result'.op = "save_organization_profile" /\ SaveOrganizationProfile
                 /\ result'.ok)]_vars
    /\ [][(result'.op = "get_organization_profile" /\ GetOrganizationProfile
            /\ result'.ok /\ profile_seq > 0)
             => result'.val = profile_rows[Len(profile_rows)]]_vars

\* two profiles were saved and the second is the one read back
C22_Witness ==
    /\ profile_seq = 2
    /\ Len(profile_rows) = 1
    /\ result.op = "get_organization_profile"
    /\ result.ok
    /\ result.val.id = 2
    /\ result.val.name = <<"N","G","O">>

\* the stored rows of a (grant_opportunity_id, section_name) pair
RowsOfPair(rows, id, name) ==
    {i \in DOMAIN rows : rows[i].grant_opportunity_id = id /\ rows[i].section_name = name}

\* C23: a successful get_section_draft(id, name) without a version returns
\* None when no row of the pair (id, name) is stored, and otherwise a stored
\* row of that pair whose version is the highest stored for the pair, whatever
\* the order of the inserts and whatever rows other pairs have.
C23_LatestIsMaxVersion ==
    [][(/\ result'.op = "get_section_draft"
        /\ GetSectionDraft
        /\ result'.ok
        /\ result'.version = NoneDict)
         => LET pair == RowsOfPair(sections, result'.grant_opportunity_id,
                                   result'.section_name)
            IN  IF pair = {} THEN result'.val = NoneDict
                ELSE /\ result'.val # NoneDict
                     /\ \E i \in pair : result'.val = sections[i]
                     /\ \A k \in pair : sections[k].version <= result'.val.version]_vars

C23_Witness ==
    /\ result.op = "get_section_draft"
    /\ result.ok
    /\ result.version = NoneDict
    /\ result.grant_opportunity_id = GrantId
    /\ result.section_name = SectionName
    /\ Len(sections) = 3
    /\ sections[1].grant_opportunity_id = GrantId /\ sections[1].section_name = SectionName
    /\ sections[1].version = 2
    /\ sections[2].grant_opportunity_id = GrantId /\ sections[2].section_name = SectionName
    /\ sections[2].version = 1
    /\ sections[3].section_name # SectionName /\ sections[3].version = 2
    /\ result.val = sections[1]

\* C24: grant_application_sections is append-only.  Every step keeps the
\* stored rows as they are and adds at most one; a successful
\* save_section_draft adds exactly one; and the table changes only in a
\* successful save_section_draft, called on the DataManager directly or by
\* save_section_node.
C24_AppendOnly ==
    [][/\ Len(sections') >= Len(sections)
       /\ Len(sections') <= Len(sections) + 1
       /\ SubSeq(sections', 1, Len(sections)) = sections
       /\ (result'.op = "save_section_draft" /\ SaveSectionDraft /\ result'.ok)
            => Len(sections') = Len(sections) + 1
       /\ sections' # sections
            => \/ run = "DataManager" /\ result'.op = "save_section_draft" /\ result'.ok
               \/ run # "DataManager" /\ cur = "save_section"]_vars

C24_Witness ==
    /\ result.op = "save_section_draft"
    /\ result.ok
    /\ result.val = IntText(3)
    /\ Len(sections) = 3
    /\ sections[1].grant_opportunity_id = sections[3].grant_opportunity_id
    /\ sections[1].section_name = sections[3].section_name
    /\ sections[1].version = sections[3].version
    /\ sections[2].version # sections[1].version

\* C25: no two stored section rows have the same grant_opportunity_id,
\* section_name and version.
C25_Original ==
    \A i, j \in DOMAIN sections :
        (/\ sections[i].grant_opportunity_id = sections[j].grant_opportunity_id
         /\ sections[i].section_name = sections[j].section_name
         /\ sections[i].version = sections[j].version)
            => i = j

\* C26: when node_analyze_opportunities returns, the state object passed in
\* equals its value before the call, each candidate record included,
\* whatever the outcomes of the items.
C26_Original ==
    cur = "analyze_opportunities"
        => \A outcomes \in [1..Len(state.extracted_grant_opportunities) -> ItemOutcomes] :
              AnalyzeOpportunities(state, grants, outcomes).input = state

\* C27: the log is append-only.  Whatever node is invoked and whatever its
\* collaborators do, the log after the node's update is merged begins with
\* the whole log the node received, entry by entry in the same order; a node
\* only adds entries at the end (or adds none).
C27_LogAppendOnly ==
    [][(cur \in Nodes) =>
          /\ Len(state'.log_messages) >= Len(state.log_messages)
          /\ state.log_messages = SubSeq(state'.log_messages, 1, Len(state.log_messages))]_vars

\* a research run that failed in research and went through the handler: the
\* first entry is still the one written at the start
C27_Witness ==
    /\ trace = <<"login", "research", "handle_error">>
    /\ cur = "END"
    /\ state.log_messages[1] = <<"Research workflow started.">>
    /\ Len(state.log_messages) >= 5
    /\ StartsWith(state.log_messages[Len(state.log_messages)], <<"ERROR ENCOUNTERED IN GRAPH: ">>)

\* C28: whenever the update of a node sets error_message, the log of that
\* update has at least one entry more than the log the node received (the
\* entry describing the failure), at every error exit of login, research,
\* analyze_opportunities, draft_section, edit_section and save_section.
C28_Original ==
    [][(cur \in Nodes /\ errors' # errors)
          => Len(state'.log_messages) > Len(state.log_messages)]_vars

\* the item outcomes in which a collaborator of analyze_opportunities raises
RaisingItems == {"analysis_raises", "save_raises", "update_raises"}

\* C29: no exception raised by a collaborator leaves a node.  Whenever a node
\* is about to call its collaborator and the call raises, the node returns an
\* update: login sets error and no driver; research sets error and an empty
\* candidate list; analyze_opportunities marks the item with analysis_error
\* and returns the batch; draft_section sets error and an empty draft;
\* edit_section sets error and empty feedback; save_section sets error.  And
\* in every execution, the step in which the writer or the reviewer raised
\* leaves error set and the artifact empty and the graph goes on.
C29_NoExceptionEscapes ==
    /\ []((cur = "login" /\ LoginCalls(state) # <<>>)
            => LET u == node_perform_login(state, Raise)
               IN  /\ u # Raised
                   /\ u.error_message # None
                   /\ u.authenticated_driver_session = None)
    /\ []((cur = "research" /\ ResearchCalls(state) # <<>>)
            => \A o \in ResearchOutcomes :
                  o.kind = "raise"
                    => LET u == node_research_and_extract(state, o)
                       IN  /\ u # Raised
                           /\ u.error_message # None
                           /\ u.extracted_grant_opportunities = <<>>)
    /\ [](cur = "analyze_opportunities"
            => \A outcomes \in [1..Len(state.extracted_grant_opportunities) -> ItemOutcomes] :
                  LET u == node_analyze_opportunities(state, grants, outcomes)
                  IN  /\ u # Raised
                      /\ DictTruthy(state.organization_profile)
                           => \A i \in DOMAIN outcomes :
                                 outcomes[i] \in RaisingItems
                                   => "analysis_error" \in DOMAIN u.extracted_grant_opportunities[i])
    /\ []((cur = "draft_section" /\ DraftCalls(state, Raise) # <<>>)
            => LET u == node_draft_section(state, Raise)
               IN  /\ u # Raised
                   /\ u.error_message # None
                   /\ u.current_draft_content = <<>>)
    /\ []((cur = "edit_section" /\ ReviewCalls(state, Raise) # <<>>)
            => LET u == node_review_draft(state, Raise)
               IN  /\ u # Raised
                   /\ u.error_message # None
                   /\ u.editor_feedback = <<>>)
    /\ []((cur = "save_section" /\ ~SavePrerequisiteMissing(state))
            => LET u == save_section_node(state, "raises", Len(sections) + 1)
               IN  /\ u # Raised
                   /\ u.error_message # None)
    /\ [][(/\ cur = "draft_section"
           /\ DraftSection
           /\ calls' # calls
           /\ calls'[Len(calls')].res = Raise.val)
            => /\ state'.error_message # None
               /\ state'.current_draft_content = <<>>
               /\ cur' = "edit_section"]_vars
    /\ [][(/\ cur = "edit_section"
           /\ EditSection
           /\ calls' # calls
           /\ calls'[Len(calls')].res = Raise.val)
            => /\ state'.error_message # None
               /\ state'.editor_feedback = <<>>
               /\ cur' # "RAISED"]_vars

\* the writer raised on the first draft and the node returned its update
C29_Witness ==
    /\ trace = <<"draft_section">>
    /\ Len(calls) = 1
    /\ calls[1].fn = "draft_section"
    /\ calls[1].res = Raise.val
    /\ Contains(state.error_message, Raise.val)
    /\ state.current_draft_content = <<>>
    /\ state.iteration_count = 1
    /\ cur = "edit_section"

\* C30: when compile() failed in the constructor (self.app is None), a call
\* of run_research_workflow or run_writing_workflow invokes no node, calls no
\* collaborator and writes no row; it returns the initial state it built with
\* error_message set to the not-compiled message and that message appended
\* to the log after the start entry, and nothing runs afterwards.
C30_NotCompiledRunsNothing ==
    /\ [](app = "None"
            => /\ trace = <<>>
               /\ calls = <<>>
               /\ errors = <<>>
               /\ sections = <<>>
               /\ grants = <<>>
               /\ cur \in {"idle", "NOT_RUN"}
               /\ run # "idle"
                    => /\ cur = "NOT_RUN"
                       /\ state.error_message \in
                             {<<"GraphOrchestrator: Workflow application (self.app) is not compiled or available. Cannot run workflow.">>,
                              <<"GraphOrchestrator: Workflow application (self.app) is not compiled or available. Cannot run writing workflow.">>}
                       /\ Len(state.log_messages) = 2
                       /\ state.log_messages[2] = state.error_message
                       /\ state.authenticated_driver_session = None
                       /\ state.current_draft_content = None
                       /\ state.iteration_count = 0)
    /\ [][app = "None" => (run = "idle" /\ (RunResearchWorkflow \/ RunWritingWorkflow))]_vars

C30_Witness ==
    /\ app = "None"
    /\ run = "run_writing_workflow"
    /\ cur = "NOT_RUN"
    /\ state.current_section_name = SectionName
    /\ state.log_messages[1] = <<"Writing workflow started for section: ">> \o SectionName \o <<".">>
    /\ state.error_message = <<"GraphOrchestrator: Workflow application (self.app) is not compiled or available. Cannot run writing workflow.">>
    /\ state.log_messages[2] = state.error_message

\* C31: draft_section on a state whose current_grant_details,
\* organization_profile or current_section_name is missing sets error,
\* returns an empty current_draft_content, does not call the writer and
\* returns iteration_count as it came in, whatever that count is.
C31_DraftRefusesWithoutPrerequisites ==
    /\ [][(cur = "draft_section" /\ DraftSection /\ DraftPrerequisiteMissing(state))
            => /\ state'.error_message # None
               /\ state'.error_message = <<"Cannot draft section: Missing current_grant_details, organization_profile, or current_section_name in state.">>
               /\ state'.current_draft_content = <<>>
               /\ calls' = calls
               /\ state'.iteration_count = state.iteration_count]_vars
    /\ []((cur = "draft_section" /\ DraftPrerequisiteMissing(state))
            => \A n \in 0..MaxIterationInput, o \in DraftOutcomes :
                  LET st == [state EXCEPT !.iteration_count = n]
                      u == node_draft_section(st, o)
                  IN  /\ u.iteration_count = n
                      /\ u.error_message # None
                      /\ u.current_draft_content = <<>>
                      /\ DraftCalls(st, o) = <<>>)

\* the loop was entered without grant details and the draft node refused
C31_Witness ==
    /\ trace = <<"draft_section">>
    /\ state.current_grant_details = NoneDict
    /\ state.organization_profile = Profile
    /\ state.current_section_name = SectionName
    /\ state.error_message = <<"Cannot draft section: Missing current_grant_details, organization_profile, or current_section_name in state.">>
    /\ state.current_draft_content = <<>>
    /\ state.iteration_count = 0
    /\ calls = <<>>
    /\ cur = "edit_section"

\* the instructions a caller may put in the state under specific_instructions
SpecificInstructions == <<"Focus on impact.">>

\* C32: in the loop, the first call of the writer passes empty guidance, and
\* every later call (a redraft) directly follows a call of the reviewer and
\* passes the feedback that call returned; with specific_instructions in
\* the state the feedback comes after them, behind the separator line.
C32_RedraftGetsLastFeedback ==
    /\ [](\A j \in DOMAIN calls :
            calls[j].fn = "draft_section"
              => IF \A k \in 1..(j - 1) : calls[k].fn # "draft_section"
                 THEN calls[j].arg = <<>>
                 ELSE /\ calls[j - 1].fn = "review_draft"
                      /\ calls[j].arg = calls[j - 1].res)
    /\ [][(cur = "draft_section" /\ DraftSection /\ calls' # calls)
            => calls'[Len(calls')].arg =
                  (IF Truthy(state.editor_feedback) THEN state.editor_feedback ELSE <<>>)]_vars
    /\ []((cur = "draft_section" /\ Truthy(state.editor_feedback))
            => combined_instructions(("specific_instructions" :> SpecificInstructions) @@ state)
                 = SpecificInstructions \o <<"\n\n--- Previous Editor Feedback ---\n">>
                   \o state.editor_feedback)

\* a second draft was asked for with the critical feedback of the first review
C32_Witness ==
    /\ Len(calls) = 3
    /\ calls[1].fn = "draft_section" /\ calls[1].arg = <<>>
    /\ calls[2].fn = "review_draft" /\ calls[2].res = Critical
    /\ calls[3].fn = "draft_section" /\ calls[3].arg = Critical
    /\ trace = <<"draft_section", "edit_section", "draft_section">>
    /\ state.iteration_count = 2

\* C33: handle_error_node invoked on a state whose error_message is None
\* appends the entry 'ERROR ENCOUNTERED IN GRAPH: No specific error message
\* provided in state.', and its update has no error_message key.
C33_Original ==
    [][(cur = "handle_error" /\ HandleError /\ state.error_message = None)
         => /\ state'.log_messages[Len(state'.log_messages)]
                 = <<"ERROR ENCOUNTERED IN GRAPH: ", "No specific error message provided in state.">>
            /\ "error_message" \notin DOMAIN handle_error_node(state)]_vars

\* C34: an execution of the loop calls save_section_draft at most once and
\* stores at most one row; the call is made by save_section, after which the
\* execution is at END; no node update has set error before that call; and
\* the draft it passes is the one the last writer call returned, so drafts of
\* earlier iterations are not stored.
C34_SavesOnceAtTheEnd ==
    /\ [](run = "draft_section"
            => /\ CallsTo(calls, "save_section_draft") <= 1
               /\ Len(sections) <= 1
               /\ CallsTo(calls, "save_section_draft") = 1
                    => /\ cur = "END"
                       /\ LastNode = "save_section"
                       /\ calls[Len(calls)].fn = "save_section_draft")
    /\ [][(/\ run = "draft_section"
           /\ CallsTo(calls', "save_section_draft") > CallsTo(calls, "save_section_draft"))
            => /\ cur = "save_section"
               /\ SaveSection
               /\ cur' = "END"
               /\ errors = <<>>
               /\ state.error_message = None
               /\ LastCallTo("draft_section") > 0
               /\ calls'[Len(calls')].arg = calls[LastCallTo("draft_section")].res]_vars

\* two drafts were written; only the second one, approved, was stored
C34_Witness ==
    /\ run = "draft_section"
    /\ cur = "END"
    /\ trace = <<"draft_section", "edit_section", "draft_section", "edit_section", "save_section">>
    /\ calls[1].fn = "draft_section" /\ calls[1].res = <<"d","A">>
    /\ calls[3].fn = "draft_section" /\ calls[3].res = <<"d","B">>
    /\ Len(sections) = 1
    /\ sections[1].draft_content = <<"d","B">>
    /\ CallsTo(calls, "save_section_draft") = 1

\* C35: in an execution of the loop started with iteration_count 0, the
\* version save_section passes to save_section_draft is the number of times
\* draft_section was invoked in the execution, and lies between 1 and
\* max_iterations (3); a row that gets stored carries that version.
C35_VersionCountsDrafts ==
    /\ [][(run = "draft_section" /\ cur = "save_section" /\ SaveSection /\ calls' # calls)
            => /\ SectionRow(state).version = Invocations("draft_section")
               /\ SectionRow(state).version \in 1..max_iterations
               /\ sections' # sections
                    => sections'[Len(sections')].version = SectionRow(state).version]_vars
    /\ []((run = "draft_section" /\ sections # <<>>)
            => /\ sections[1].version = Invocations("draft_section")
               /\ sections[1].version \in 1..max_iterations)

\* the third draft was stored although its review was critical
C35_Witness ==
    /\ run = "draft_section"
    /\ cur = "END"
    /\ Invocations("draft_section") = 3
    /\ Len(sections) = 1
    /\ sections[1].version = 3
    /\ sections[1].feedback = Critical
    /\ calls[Len(calls)].fn = "save_section_draft"

\* C36: in the loop, a draft_section step that ends with error set (a
\* prerequisite missing, the writer returning '// Error', a non-string or
\* raising) ends with an empty current_draft_content and is followed by
\* edit_section; that review does not call the reviewer, ends with error set
\* itself, and the routing after it returns 'handle_error'.
C36_FailedDraftEndsInHandler ==
    /\ [][(cur = "draft_section" /\ DraftSection /\ state'.error_message # None)
            => /\ state'.current_draft_content = <<>>
               /\ cur' = "edit_section"]_vars
    /\ [][(/\ run = "draft_section"
           /\ cur = "edit_section"
           /\ EditSection
           /\ state.error_message # None)
            => /\ LastNode = "draft_section"
               /\ calls' = calls
               /\ Len(errors') = Len(errors) + 1
               /\ state'.error_message = errors'[Len(errors')]
               /\ state'.error_message # None
               /\ decision' = "handle_error"
               /\ cur' = "handle_error"]_vars

\* the writer returned its error string; review refused the empty draft
C36_Witness ==
    /\ run = "draft_section"
    /\ trace = <<"draft_section", "edit_section">>
    /\ Len(calls) = 1
    /\ calls[1].fn = "draft_section" /\ calls[1].res = AgentErrorText
    /\ Len(errors) = 2
    /\ errors[1][1] = "WriterAgent failed to draft section '"
    /\ errors[2][1] = "Cannot review draft for section '"
    /\ state.current_draft_content = <<>>
    /\ decision = "handle_error"
    /\ cur = "handle_error"

\* C37: whatever login is invoked on and whatever perform_website_login does,
\* the update of login carries a driver session exactly when its
\* error_message is None; so after login the graph goes to research only
\* with error None and to handle_error only with error set.
C37_SessionIffNoError ==
    /\ [](cur = "login"
            => \A o \in LoginOutcomes :
                  LET u == node_perform_login(state, o)
                  IN  /\ u # Raised
                      /\ {"authenticated_driver_session", "error_message"} \subseteq DOMAIN u
                      /\ Truthy(u.authenticated_driver_session) <=> (u.error_message = None)
                      /\ (u.authenticated_driver_session = None) <=> (u.error_message # None))
    /\ [][(cur = "login" /\ Login)
            => /\ (state'.authenticated_driver_session # None) <=> (state'.error_message = None)
               /\ cur' \in {"research", "handle_error"}
               /\ cur' = "research" => (state'.error_message = None /\ errors' = errors)
               /\ cur' = "handle_error" => (state'.error_message # None /\ errors' # errors)]_vars

\* a run logged in and went on to research with no error
C37_Witness ==
    /\ run = "run_research_workflow"
    /\ trace = <<"login">>
    /\ cur = "research"
    /\ state.authenticated_driver_session = Driver
    /\ state.error_message = None
    /\ Len(calls) = 1
    /\ calls[1].fn = "perform_website_login"

\* C38: should_redraft_or_save applied to any state, a state whose
\* editor_feedback is None included, with or without error, returns one of
\* 'handle_error', 'save_section', 'draft_section_again', and leaves the
\* state as it was.
C38_Original ==
    /\ [](Routed => decision \in {"handle_error", "save_section", "draft_section_again"})
    /\ [][ApplyRouting => state' = state]_vars

\* C39: a successful get_all_sections_for_grant(id) returns only rows of the
\* grant id, each with the highest version stored for its section, and
\* exactly one row for every section name the grant has rows for, also when
\* several rows of a section share the highest version.
C39_Original ==
    [][(/\ result'.op = "get_all_sections_for_grant"
        /\ GetAllSectionsForGrant
        /\ result'.ok)
         => LET id == result'.grant_opportunity_id
                val == result'.val
                names == {sections[i].section_name :
                             i \in {k \in DOMAIN sections : sections[k].grant_opportunity_id = id}}
            IN  /\ \A j \in DOMAIN val :
                      /\ val[j].grant_opportunity_id = id
                      /\ \E i \in DOMAIN sections : sections[i] = val[j]
                      /\ \A k \in RowsOfPair(sections, id, val[j].section_name) :
                            sections[k].version <= val[j].version
                /\ \A name \in names :
                      Cardinality({j \in DOMAIN val : val[j].section_name = name}) = 1]_vars

\* the log line written after update_grant_analysis was called for an item
UpdatedLine(l) == l # <<>> /\ l[1] = "Analysis status '"

\* the item outcomes in which update_grant_analysis fails
UpdateFailures == {"update_false", "update_raises"}

\* C40: in analyze_opportunities, the count in the batch summary and the
\* number of 'Analysis status ... updated' lines both equal the number of
\* items for which save_grant_opportunity and update_grant_analysis both
\* succeeded; an item whose update_grant_analysis returned False or raised
\* carries analysis_error and is not counted.
C40_Original ==
    [][AnalyzeOpportunitiesNode =>
          LET in == state.extracted_grant_opportunities
              out == state'.extracted_grant_opportunities
              new == Appended(state.log_messages, state'.log_messages)
          IN  \A outcomes \in [DOMAIN in -> ItemOutcomes] :
                 LET r == AnalyzeOpportunities(state, grants, outcomes)
                     succeeded == {i \in DOMAIN in : outcomes[i] = "ok"}
                     count == IntText(Cardinality(succeeded))
                 IN  (/\ state.organization_profile \notin {NoneDict, EmptyDict}
                      /\ in # <<>>
                      /\ state' = Merge(state, r.update)
                      /\ grants' = r.rows
                      /\ calls' = calls \o r.calls)
                     => /\ SubSeq(new[Len(new)], 1, 1 + Len(count))
                              = <<"Analysis and saving process complete. ">> \o count
                        /\ Cardinality({j \in DOMAIN new : UpdatedLine(new[j])})
                              = Cardinality(succeeded)
                        /\ \A i \in DOMAIN in :
                              outcomes[i] \in UpdateFailures
                                 => "analysis_error" \in DOMAIN out[i]]_vars

====
